---- MODULE Spec2Model ----
(***************************************************************************)
(* Model of the secure-seed, key-derivation and probable-prime search core *)
(* of previous-work/4096-pipeline (z_seed_generator.h, z5d_key_gen.c).      *)
(*                                                                         *)
(* The module holds one state machine per subsystem, each with its own     *)
(* specification:                                                          *)
(*   SpecHex    z_seed_to_hex / z_hex_to_seed                               *)
(*   SpecSeed   z_generate_seed and main's handling of its result           *)
(*   SpecDerive derive_seed                                                 *)
(*   SpecMR     candidate_is_probable_prime                                 *)
(*   SpecSearch guided_prime_search / search_prime_candidates               *)
(*   FairSearch guided_prime_search under weak fairness, for termination    *)
(*   FairParallel the parallel path of search_prime_candidates under weak   *)
(*              fairness of its workers                                     *)
(*   SpecBuffers z_generate_seed and derive_seed, for their scratch buffers *)
(*   SpecKey    z5d_nth_prime / generate_rsa_keypair over the searches      *)
(* Widths that the source fixes at 32 bytes / 2048 bits are scaled down to  *)
(* the bounds named below; every algorithm is written against the bound,   *)
(* never against its numeric value.                                        *)
(***************************************************************************)
EXTENDS Integers, Sequences, FiniteSets, TLC

VARIABLES
    \* ---- z_seed_to_hex / z_hex_to_seed ----
    hx_pc,      \* position: "to_hex", "to_hex_term", "to_seed", "done"
    hx_mode,    \* "roundtrip" (encode, then decode) or "parse" (decode a caller's buffer)
    hx_seed,    \* the seed handed to z_seed_to_hex
    hx_i,       \* loop index i of the running function
    hex_buf,    \* the char buffer hex_out / hex_in (HEX_SEED_LEN chars)
    hx_out,     \* the seed buffer z_hex_to_seed writes
    hx_rc,      \* z_hex_to_seed's return value ("none" before it returns)
    \* ---- z_generate_seed and its caller ----
    zs_pc,          \* position in z_generate_seed / main
    zs_caller,      \* "main" (through init_config) or "direct"
    zs_seed_ptr,    \* FALSE when the seed argument is NULL
    zs_seed,        \* the caller's seed buffer
    zs_fd,          \* "none", "open", "closed", "failed"
    zs_bytes_read,  \* read()'s return value
    zs_mix_input,   \* the salt buffer
    zs_digest,      \* the digest buffer (EVP_MAX_MD_SIZE bytes)
    zs_digest_len,  \* digest_len
    zs_ok,          \* ok
    zs_rc,          \* z_generate_seed's return value
    zs_trace,       \* the steps taken so far, in order
    main_exit,      \* main's exit status ("none" while running)
    main_keygen,    \* TRUE once generate_rsa_keypair has been called
    \* ---- derive_seed ----
    ds_pc,           \* position in derive_seed
    ds_seed_null,    \* TRUE when base_seed is NULL
    ds_tag_null,     \* TRUE when tag is NULL
    ds_output_null,  \* TRUE when output is NULL
    ds_base_seed,    \* base_seed[SEED_SIZE]
    ds_tag,          \* the tag's bytes, without the terminator
    ds_output_size,  \* output_size
    ds_output,       \* the caller's output buffer
    ds_context,      \* context[SEED_SIZE + TAG_PREFIX_MAX]
    ds_tag_len,      \* tag_len
    ds_digest,       \* digest[SHA256_DIGEST_LENGTH]
    ds_produced,     \* produced
    \* ---- candidate_is_probable_prime ----
    mr_pc,        \* position in candidate_is_probable_prime
    mr_n,         \* candidate
    mr_seed,      \* cfg->seed
    mr_hint,      \* hint
    mr_ctx,       \* the mr_context_t
    mr_geodesic,  \* geodesic[MR_GEODESIC_WITNESSES]
    mr_standard,  \* standard[MR_STANDARD_WITNESSES]
    mr_i,         \* index of the running loop
    mr_result,    \* the return value
    mr_rounds,    \* the rounds run so far, in order
    \* ---- guided_prime_search and search_prime_candidates ----
    caller,                 \* "guided" or "direct": the function the run entered
    omp_max_threads,        \* omp_get_max_threads() (1 in a build without OpenMP)
    too_close_ref,          \* *too_close_ref, 0 for a NULL pointer
    enforce_not_too_close,  \* enforce_not_too_close
    result_out,             \* the caller's result_out
    gp_pc,                  \* position in guided_prime_search
    gp_estimated_start,     \* estimated_start
    gp_max_attempts,        \* max_attempts
    gp_hint_seed,           \* hint_seed
    gp_base_start,          \* base_start
    gp_current_start,       \* current_start
    gp_remaining,           \* remaining
    gp_offset,              \* offset
    gp_segment,             \* segment
    gp_found,               \* found
    gp_used_parallel,       \* *used_parallel
    gp_attempts_used,       \* *attempts_used
    sp_pc,                  \* position in search_prime_candidates
    sp_start,               \* start
    sp_max_attempts,        \* max_attempts
    sp_hint_seed,           \* hint_seed
    sp_limit_bit,           \* limit_bit
    sp_clamp_on_limit,      \* clamp_on_limit
    sp_used_parallel,       \* *used_parallel
    sp_attempts_used,       \* *attempts_used
    sp_ret,                 \* the return value
    sp_total_threads,       \* omp_get_num_threads() in the parallel region
    sp_found,               \* found
    sp_found_prime,         \* found_prime
    sp_found_attempt,       \* found_attempt
    sp_limit_reached,       \* limit_reached
    sp_candidate,           \* candidate of the sequential loop
    sp_attempt,             \* attempt of the sequential loop
    th_pc,                  \* each worker's position: "off", "init", "poll", "test", "done"
    th_candidate,           \* each worker's candidate
    th_attempt_index,       \* each worker's attempt_index
    tests,                  \* the calls of candidate_is_probable_prime made so far
    \* ---- z5d_nth_prime, seed_to_2048bit, generate_rsa_keypair ----
    g_debug,         \* g_debug
    g_quiet,         \* g_quiet
    cfg_seed,        \* cfg->seed, the bytes
    np_pc,           \* position in z5d_nth_prime
    np_k,            \* k
    np_k_ge_min,     \* the outcome of mpz_cmp_d(k, ZF_MIN_K_NTH) >= 0
    np_prime_seed,   \* prime_seed[256]
    np_ret,          \* the return value
    np_path,         \* the search that produced the return: "none", "guided", "fallback"
    kg_pc,           \* position in generate_rsa_keypair
    kg_seed_p,       \* seed_p[32]
    kg_seed_q,       \* seed_q[32]
    kg_expanded,     \* expanded[256] of the last seed_to_2048bit call
    kg_x_p,          \* x_p
    kg_x_q,          \* x_q
    kg_p,            \* p
    kg_q,            \* q
    kg_retry_count,  \* retry_count
    kg_rsa           \* the return value: "none", "NULL", "partial", "complete"

hexVars == <<hx_pc, hx_mode, hx_seed, hx_i, hex_buf, hx_out, hx_rc>>

seedVars == <<zs_pc, zs_caller, zs_seed_ptr, zs_seed, zs_fd, zs_bytes_read,
              zs_mix_input, zs_digest, zs_digest_len, zs_ok, zs_rc, zs_trace,
              main_exit, main_keygen>>

deriveVars == <<ds_pc, ds_seed_null, ds_tag_null, ds_output_null, ds_base_seed, ds_tag,
                ds_output_size, ds_output, ds_context, ds_tag_len, ds_digest, ds_produced>>

mrVars == <<mr_pc, mr_n, mr_seed, mr_hint, mr_ctx, mr_geodesic, mr_standard, mr_i,
            mr_result, mr_rounds>>

envVars == <<caller, omp_max_threads, too_close_ref, enforce_not_too_close>>

guidedVars == <<gp_pc, gp_estimated_start, gp_max_attempts, gp_hint_seed, gp_base_start,
                gp_current_start, gp_remaining, gp_offset, gp_segment, gp_found,
                gp_used_parallel, gp_attempts_used>>

searchCallVars == <<sp_pc, sp_start, sp_max_attempts, sp_hint_seed, sp_limit_bit,
                    sp_clamp_on_limit, sp_used_parallel, sp_attempts_used, sp_ret,
                    sp_total_threads, sp_found, sp_found_prime, sp_found_attempt,
                    sp_limit_reached, sp_candidate, sp_attempt, th_pc, th_candidate,
                    th_attempt_index>>

searchVars == <<envVars, result_out, guidedVars, searchCallVars, tests>>

nthVars == <<np_pc, np_k, np_k_ge_min, np_prime_seed, np_ret, np_path>>

keygenVars == <<kg_pc, kg_seed_p, kg_seed_q, kg_expanded, kg_x_p, kg_x_q, kg_p, kg_q,
                kg_retry_count, kg_rsa>>

keyVars == <<g_debug, g_quiet, cfg_seed, nthVars, keygenVars>>

vars == <<hexVars, seedVars, deriveVars, mrVars, searchVars, keyVars>>

(***************************************************************************)
(* Bounds                                                                  *)
(***************************************************************************)
\* SEED_SIZE is 32 in the source (z_seed_generator.h:33); scaled down.
SEED_SIZE == 2

\* SHA-256 yields 32 bytes, the size of a seed.
SHA256_DIGEST_LENGTH == SEED_SIZE

HEX_SEED_LEN == SEED_SIZE * 2 + 1

\* Representative byte values: both nibbles zero, a leading-zero nibble,
\* digit and letter nibbles, and the extremes.
ByteVals == {0, 9, 10, 16, 171, 255}

AllBytes == 0..255

(***************************************************************************)
(* Characters are one-character strings; NUL is the string terminator.     *)
(***************************************************************************)
NUL == ""

Unwritten == "?"

LowerHex == <<"0", "1", "2", "3", "4", "5", "6", "7", "8", "9",
              "a", "b", "c", "d", "e", "f">>

UpperHex == <<"0", "1", "2", "3", "4", "5", "6", "7", "8", "9",
              "A", "B", "C", "D", "E", "F">>

IsXDigit(c) == \E k \in 1..16 : LowerHex[k] = c \/ UpperHex[k] = c

XDigitVal(c) == (CHOOSE k \in 1..16 : LowerHex[k] = c \/ UpperHex[k] = c) - 1

IsSpace(c) == c = " "

IsSign(c) == c = "+" \/ c = "-"

\* The characters a caller's buffer is drawn from.
InputChars == {"0", "a", "F", "g", " ", "-", NUL}

(***************************************************************************)
(* snprintf(hex_out + i*2, 3, "%02x", seed[i]): two lowercase digits, most  *)
(* significant nibble first, and the terminating NUL.                      *)
(***************************************************************************)
\* "%2x" in place of "%02x": a value below 16 is padded with a blank.
Snprintf2xBlank(b) ==
    <<IF b < 16 THEN " " ELSE LowerHex[(b \div 16) + 1], LowerHex[(b % 16) + 1], NUL>>

Snprintf02x(b) == <<LowerHex[(b \div 16) + 1], LowerHex[(b % 16) + 1], NUL>>

(***************************************************************************)
(* sscanf(s, "%02x", &byte_val) on the chars of buf from position p        *)
(* (1-based).  Leading white space is skipped and not counted in the field *)
(* width; an optional sign counts in it; the conversion takes the longest  *)
(* run of at most 2 chars that is a (signed) hex number.  Returns the      *)
(* number of conversions (1, 0, or -1 for EOF) and the unsigned value.     *)
(***************************************************************************)
RECURSIVE SkipSpace(_, _)
SkipSpace(buf, p) ==
    IF p <= Len(buf) /\ IsSpace(buf[p]) THEN SkipSpace(buf, p + 1) ELSE p

CharAt(buf, p) == IF p <= Len(buf) THEN buf[p] ELSE NUL

\* byte_val is an unsigned int: a negative input -d is stored as 2^32 - d.  The
\* caller keeps only the low 8 bits, so the value is carried modulo 2^16
\* (2^16 divides 2^32, so the low bits are those of the 32-bit value).
UIntCarry == 256 * 256

Sscanf02x(buf, p) ==
    LET q  == SkipSpace(buf, p)
        c1 == CharAt(buf, q)
        c2 == CharAt(buf, q + 1)
    IN  IF c1 = NUL THEN [n |-> -1, v |-> 0]
        ELSE IF IsSign(c1) THEN
            IF IsXDigit(c2)
            THEN [n |-> 1,
                  v |-> IF c1 = "-" THEN (UIntCarry - XDigitVal(c2)) % UIntCarry
                                    ELSE XDigitVal(c2)]
            ELSE [n |-> 0, v |-> 0]
        ELSE IF IsXDigit(c1) THEN
            IF IsXDigit(c2)
            THEN [n |-> 1, v |-> 16 * XDigitVal(c1) + XDigitVal(c2)]
            ELSE [n |-> 1, v |-> XDigitVal(c1)]
        ELSE [n |-> 0, v |-> 0]

Uint8(v) == v % 256

(***************************************************************************)
(* Bytes.  SHA-256 is an external primitive and is modelled as an ideal    *)
(* hash: byte k of the digest of an input is the term <input, k>, so two   *)
(* digests are equal exactly when their inputs are.  Every byte is a       *)
(* record [src, idx]: a literal byte v has no source, a digest byte has    *)
(* the hashed input as its source, an XOR of two bytes has the two bytes.  *)
(***************************************************************************)
Lit(v) == [src |-> <<>>, idx |-> v]

Zero == Lit(0)

\* the contents of memory the function has not written
Garbage == [src |-> <<>>, idx |-> -2]

Xor(a, b) == [src |-> <<a, b>>, idx |-> -1]

SHA256(input) == [k \in 1..SHA256_DIGEST_LENGTH |-> [src |-> input, idx |-> k]]

Zeros(n) == [k \in 1..n |-> Zero]

\* a cleanse that leaves the buffer as it is
CleanseSkipped(buf, len) == buf

\* OPENSSL_cleanse(buf, len): the first len bytes become zero
Cleanse(buf, len) == [k \in 1..Len(buf) |-> IF k <= len THEN Zero ELSE buf[k]]

(***************************************************************************)
(* z_seed_to_hex, one loop iteration per step                              *)
(***************************************************************************)
Seeds == [1..SEED_SIZE -> ByteVals]

InputBuffers ==
    {b \in [1..HEX_SEED_LEN -> InputChars] : b[HEX_SEED_LEN] = NUL}

SeedIdle ==
    /\ zs_pc = "idle" /\ zs_caller = "none" /\ zs_seed_ptr = FALSE /\ zs_seed = <<>>
    /\ zs_fd = "none" /\ zs_bytes_read = 0 /\ zs_mix_input = <<>> /\ zs_digest = <<>>
    /\ zs_digest_len = 0 /\ zs_ok = 0 /\ zs_rc = 0 /\ zs_trace = <<>>
    /\ main_exit = "none" /\ main_keygen = FALSE

DeriveIdle ==
    /\ ds_pc = "idle" /\ ds_seed_null = FALSE /\ ds_tag_null = FALSE
    /\ ds_output_null = FALSE /\ ds_base_seed = <<>> /\ ds_tag = <<>>
    /\ ds_output_size = 0 /\ ds_output = <<>> /\ ds_context = <<>>
    /\ ds_tag_len = 0 /\ ds_digest = <<>> /\ ds_produced = 0

NoContext == [n |-> 0, n_minus_1 |-> 0, n_minus_3 |-> 0, d |-> 0, r |-> 0]

MRIdle ==
    /\ mr_pc = "idle" /\ mr_n = 0 /\ mr_seed = 0 /\ mr_hint = 0 /\ mr_ctx = NoContext
    /\ mr_geodesic = <<>> /\ mr_standard = <<>> /\ mr_i = 0 /\ mr_result = 0
    /\ mr_rounds = <<>>

\* The largest value of omp_get_max_threads() tried.
MaxThreads == 3

Threads == 0..(MaxThreads - 1)

SearchIdle ==
    /\ caller = "none"
    /\ omp_max_threads = 1
    /\ too_close_ref = 0
    /\ enforce_not_too_close = 0
    /\ result_out = 0
    /\ gp_pc = "idle"
    /\ gp_estimated_start = 0
    /\ gp_max_attempts = 0
    /\ gp_hint_seed = 0
    /\ gp_base_start = 0
    /\ gp_current_start = 0
    /\ gp_remaining = 0
    /\ gp_offset = 0
    /\ gp_segment = 0
    /\ gp_found = 0
    /\ gp_used_parallel = 0
    /\ gp_attempts_used = 0
    /\ sp_pc = "idle"
    /\ sp_start = 0
    /\ sp_max_attempts = 0
    /\ sp_hint_seed = 0
    /\ sp_limit_bit = 0
    /\ sp_clamp_on_limit = 0
    /\ sp_used_parallel = 0
    /\ sp_attempts_used = 0
    /\ sp_ret = 0
    /\ sp_total_threads = 0
    /\ sp_found = 0
    /\ sp_found_prime = 0
    /\ sp_found_attempt = 0
    /\ sp_limit_reached = 0
    /\ sp_candidate = 0
    /\ sp_attempt = 0
    /\ th_pc = [k \in Threads |-> "off"]
    /\ th_candidate = [k \in Threads |-> 0]
    /\ th_attempt_index = [k \in Threads |-> 0]
    /\ tests = {}

KeyIdle ==
    /\ g_debug = 0 /\ g_quiet = 0 /\ cfg_seed = <<>>
    /\ np_pc = "idle" /\ np_k = 0 /\ np_k_ge_min = FALSE /\ np_prime_seed = <<>>
    /\ np_ret = 0 /\ np_path = "none"
    /\ kg_pc = "idle" /\ kg_seed_p = <<>> /\ kg_seed_q = <<>> /\ kg_expanded = <<>>
    /\ kg_x_p = 0 /\ kg_x_q = 0 /\ kg_p = 0 /\ kg_q = 0 /\ kg_retry_count = 0
    /\ kg_rsa = "none"

HexIdle ==
    /\ hx_pc = "idle" /\ hx_mode = "none" /\ hx_seed = <<>> /\ hx_i = 0
    /\ hex_buf = <<>> /\ hx_out = <<>> /\ hx_rc = "none"

InitHex ==
    /\ SeedIdle /\ DeriveIdle /\ MRIdle /\ SearchIdle /\ KeyIdle
    /\ hx_i = 0
    /\ hx_out = [k \in 1..SEED_SIZE |-> -1]
    /\ hx_rc = "none"
    /\ \/ /\ hx_mode = "roundtrip"
          /\ hx_pc = "to_hex"
          /\ hx_seed \in Seeds
          /\ hex_buf = [k \in 1..HEX_SEED_LEN |-> Unwritten]
       \/ /\ hx_mode = "parse"
          /\ hx_pc = "to_seed"
          /\ hx_seed = <<>>
          /\ hex_buf \in InputBuffers

\* for (i = 0; i < SEED_SIZE; i++) snprintf(hex_out + i*2, 3, "%02x", seed[i]);
SeedToHexStep ==
    /\ hx_pc = "to_hex"
    /\ hx_i < SEED_SIZE
    /\ LET s == Snprintf02x(hx_seed[hx_i + 1])
       IN  hex_buf' = [hex_buf EXCEPT ![2 * hx_i + 1] = s[1],
                                      ![2 * hx_i + 2] = s[2],
                                      ![2 * hx_i + 3] = s[3]]
    /\ hx_i' = hx_i + 1
    /\ UNCHANGED <<hx_pc, hx_mode, hx_seed, hx_out, hx_rc>>
    /\ UNCHANGED <<seedVars, deriveVars, mrVars, searchVars, keyVars>>

\* hex_out[SEED_SIZE*2] = '\0'; the caller then hands the string to z_hex_to_seed
SeedToHexTerminate ==
    /\ hx_pc = "to_hex"
    /\ hx_i = SEED_SIZE
    /\ hex_buf' = [hex_buf EXCEPT ![SEED_SIZE * 2 + 1] = NUL]
    /\ hx_pc' = "to_seed"
    /\ hx_i' = 0
    /\ UNCHANGED <<hx_mode, hx_seed, hx_out, hx_rc>>
    /\ UNCHANGED <<seedVars, deriveVars, mrVars, searchVars, keyVars>>

\* one iteration of z_hex_to_seed's loop: sscanf, then return -1 or store the byte
HexToSeedStep ==
    /\ hx_pc = "to_seed"
    /\ hx_i < SEED_SIZE
    /\ LET r == Sscanf02x(hex_buf, 2 * hx_i + 1)
       IN  IF r.n # 1
           THEN /\ hx_rc' = -1
                /\ hx_pc' = "done"
                /\ UNCHANGED <<hx_out, hx_i>>
           ELSE /\ hx_out' = [hx_out EXCEPT ![hx_i + 1] = Uint8(r.v)]
                /\ hx_i' = hx_i + 1
                /\ UNCHANGED <<hx_pc, hx_rc>>
    /\ UNCHANGED <<hx_mode, hx_seed, hex_buf>>
    /\ UNCHANGED <<seedVars, deriveVars, mrVars, searchVars, keyVars>>

\* return 0 after the loop
HexToSeedReturn ==
    /\ hx_pc = "to_seed"
    /\ hx_i = SEED_SIZE
    /\ hx_rc' = 0
    /\ hx_pc' = "done"
    /\ UNCHANGED <<hx_mode, hx_seed, hx_i, hex_buf, hx_out>>
    /\ UNCHANGED <<seedVars, deriveVars, mrVars, searchVars, keyVars>>

NextHex ==
    \/ SeedToHexStep
    \/ SeedToHexTerminate
    \/ HexToSeedStep
    \/ HexToSeedReturn

SpecHex == InitHex /\ [][NextHex]_vars

(***************************************************************************)
(* Claims about the hex codec                                              *)
(***************************************************************************)
\* The string z_seed_to_hex builds for seed s, in closed form.
HexStringOf(s) ==
    [k \in 1..HEX_SEED_LEN |->
        IF k = HEX_SEED_LEN THEN NUL
        ELSE IF k % 2 = 1 THEN LowerHex[(s[(k + 1) \div 2] \div 16) + 1]
        ELSE LowerHex[(s[k \div 2] % 16) + 1]]

IsLowerHex(c) == \E k \in 1..16 : LowerHex[k] = c

Encoded == hx_mode = "roundtrip" /\ hx_pc \in {"to_seed", "done"}

\* C8: z_seed_to_hex yields exactly 2*SEED_SIZE lowercase hex digits (high
\* nibble first) and a NUL; distinct seeds give distinct strings; and
\* z_hex_to_seed of that string returns 0 and yields the seed again.  The
\* byte-level round trip holds for every byte value 0..255.
C8_HexRoundTrip ==
    /\ Encoded =>
          /\ Len(hex_buf) = 2 * SEED_SIZE + 1
          /\ hex_buf[2 * SEED_SIZE + 1] = NUL
          /\ \A k \in 1..(2 * SEED_SIZE) : IsLowerHex(hex_buf[k])
          /\ \A i \in 0..(SEED_SIZE - 1) :
                16 * XDigitVal(hex_buf[2 * i + 1]) + XDigitVal(hex_buf[2 * i + 2])
                    = hx_seed[i + 1]
          /\ \A s2 \in Seeds : s2 # hx_seed => HexStringOf(s2) # hex_buf
          /\ \A b \in AllBytes :
                LET r == Sscanf02x(Snprintf02x(b), 1)
                IN  r.n = 1 /\ Uint8(r.v) = b
    /\ (hx_mode = "roundtrip" /\ hx_pc = "done") => (hx_rc = 0 /\ hx_out = hx_seed)

C8_Witness ==
    /\ hx_mode = "roundtrip" /\ hx_pc = "done" /\ hx_rc = 0
    /\ \E k \in 1..SEED_SIZE : hx_seed[k] = 171
    /\ \E k \in 1..SEED_SIZE : hx_seed[k] = 9
    /\ hx_out = hx_seed

\* A well-formed input: exactly 2*SEED_SIZE hex digits, then the terminator.
WellFormedHex(buf) ==
    /\ \A k \in 1..(2 * SEED_SIZE) : IsXDigit(buf[k])
    /\ buf[2 * SEED_SIZE + 1] = NUL

\* C9: z_hex_to_seed returns -1 on every input that is not exactly
\* 2*SEED_SIZE hex digits (a non-hex character anywhere, white space, a sign,
\* or an early terminator).
C9_RejectsMalformed ==
    (hx_mode = "parse" /\ hx_pc = "done" /\ ~WellFormedHex(hex_buf)) => hx_rc = -1

(***************************************************************************)
(* z_generate_seed (z_seed_generator.h) and main's handling of its result  *)
(***************************************************************************)
ZSEED_OK == 0

ZSEED_ERR_NULL_POINTER == -1

ZSEED_ERR_ENTROPY_UNAVAIL == -2

ZSEED_ERR_READ_FAILURE == -3

ZSEED_ERR_CRYPTO_FAILURE == -4

\* EVP_MAX_MD_SIZE is 64, twice the SHA-256 digest length
EVP_MAX_MD_SIZE == 2 * SHA256_DIGEST_LENGTH

\* a byte of the entropy source, scaled from 8 bits
OsByteBits == 2

\* what /dev/urandom may deliver: every value of a byte
OsByteVals == {Lit(v) : v \in 0..(2^OsByteBits - 1)}

OsBytes == [1..SEED_SIZE -> OsByteVals]

\* what the clocks may deliver
TimeVals == {1, 2}

\* switch (rc) in seed_error_exit_code; the default branch yields 1
seed_error_exit_code_fallthrough(rc) ==
    IF rc = ZSEED_ERR_ENTROPY_UNAVAIL THEN 2
    ELSE IF rc = ZSEED_ERR_READ_FAILURE THEN 3
    ELSE 1

seed_error_exit_code(rc) ==
    IF rc = ZSEED_ERR_ENTROPY_UNAVAIL THEN 2
    ELSE IF rc = ZSEED_ERR_READ_FAILURE THEN 3
    ELSE IF rc = ZSEED_ERR_CRYPTO_FAILURE THEN 4
    ELSE 1

InitSeed ==
    /\ HexIdle /\ DeriveIdle /\ MRIdle /\ SearchIdle /\ KeyIdle
    /\ zs_pc = "entry"
    /\ \/ zs_caller = "main" /\ zs_seed_ptr = TRUE
       \/ zs_caller = "direct" /\ zs_seed_ptr \in BOOLEAN
    /\ zs_seed = [k \in 1..SEED_SIZE |-> Garbage]
    /\ zs_fd = "none"
    /\ zs_bytes_read = 0
    /\ zs_mix_input = [k \in 1..4 |-> Garbage]
    /\ zs_digest = [k \in 1..EVP_MAX_MD_SIZE |-> Garbage]
    /\ zs_digest_len = 0
    /\ zs_ok = 0
    /\ zs_rc = ZSEED_OK
    /\ zs_trace = <<>>
    /\ main_exit = "none"
    /\ main_keygen = FALSE

ZGS_Return(rc) == zs_rc' = rc /\ zs_pc' = "returned"

\* if (!seed) return ZSEED_ERR_NULL_POINTER;
ZGS_NullCheck ==
    /\ zs_pc = "entry"
    /\ IF ~zs_seed_ptr
       THEN ZGS_Return(ZSEED_ERR_NULL_POINTER)
       ELSE zs_pc' = "open" /\ UNCHANGED zs_rc
    /\ UNCHANGED <<zs_caller, zs_seed_ptr, zs_seed, zs_fd, zs_bytes_read, zs_mix_input,
                   zs_digest, zs_digest_len, zs_ok, zs_trace, main_exit, main_keygen>>
    /\ UNCHANGED <<hexVars, deriveVars, mrVars, searchVars, keyVars>>

\* fd = open("/dev/urandom", O_RDONLY); if (fd < 0) return ZSEED_ERR_ENTROPY_UNAVAIL;
ZGS_Open ==
    /\ zs_pc = "open"
    /\ zs_trace' = Append(zs_trace, "open")
    /\ \E opened \in BOOLEAN :
         IF opened
         THEN zs_fd' = "open" /\ zs_pc' = "read" /\ UNCHANGED zs_rc
         ELSE zs_fd' = "failed" /\ ZGS_Return(ZSEED_ERR_ENTROPY_UNAVAIL)
    /\ UNCHANGED <<zs_caller, zs_seed_ptr, zs_seed, zs_bytes_read, zs_mix_input,
                   zs_digest, zs_digest_len, zs_ok, main_exit, main_keygen>>
    /\ UNCHANGED <<hexVars, deriveVars, mrVars, searchVars, keyVars>>

\* bytes_read = read(fd, seed, SEED_SIZE); close(fd);
\* if (bytes_read != SEED_SIZE) return ZSEED_ERR_READ_FAILURE;
ZGS_Read ==
    /\ zs_pc = "read"
    /\ zs_trace' = Append(zs_trace, "read")
    /\ zs_fd' = "closed"
    /\ \E n \in (-1)..SEED_SIZE, os \in OsBytes :
         /\ zs_bytes_read' = n
         /\ zs_seed' = [k \in 1..SEED_SIZE |-> IF k <= n THEN os[k] ELSE zs_seed[k]]
         /\ IF n # SEED_SIZE
            THEN ZGS_Return(ZSEED_ERR_READ_FAILURE)
            ELSE zs_pc' = "salt" /\ UNCHANGED zs_rc
    /\ UNCHANGED <<zs_caller, zs_seed_ptr, zs_mix_input, zs_digest, zs_digest_len,
                   zs_ok, main_exit, main_keygen>>
    /\ UNCHANGED <<hexVars, deriveVars, mrVars, searchVars, keyVars>>

\* gettimeofday, getpid, clock, clock_gettime; the four fields are copied into
\* mix_input (each field is one cell of the model's buffer)
ZGS_Salt ==
    /\ zs_pc = "salt"
    /\ \E tv \in TimeVals, ts \in TimeVals, mono_ok \in BOOLEAN :
         LET pid == 3
             clk == 4
             monotonic_entropy == IF mono_ok THEN 10 + ts ELSE tv
         IN  zs_mix_input' = <<Lit(tv), Lit(pid), Lit(clk), Lit(monotonic_entropy)>>
    /\ zs_pc' = "ctx_new"
    /\ UNCHANGED <<zs_caller, zs_seed_ptr, zs_seed, zs_fd, zs_bytes_read, zs_digest,
                   zs_digest_len, zs_ok, zs_rc, zs_trace, main_exit, main_keygen>>
    /\ UNCHANGED <<hexVars, deriveVars, mrVars, searchVars, keyVars>>

\* ctx = EVP_MD_CTX_new(); if (!ctx) { cleanse(mix_input); return CRYPTO_FAILURE; }
ZGS_CtxNew ==
    /\ zs_pc = "ctx_new"
    /\ \E allocated \in BOOLEAN :
         IF allocated
         THEN zs_pc' = "digest" /\ UNCHANGED <<zs_rc, zs_mix_input>>
         ELSE /\ zs_mix_input' = Cleanse(zs_mix_input, Len(zs_mix_input))
              /\ ZGS_Return(ZSEED_ERR_CRYPTO_FAILURE)
    /\ UNCHANGED <<zs_caller, zs_seed_ptr, zs_seed, zs_fd, zs_bytes_read, zs_digest,
                   zs_digest_len, zs_ok, zs_trace, main_exit, main_keygen>>
    /\ UNCHANGED <<hexVars, deriveVars, mrVars, searchVars, keyVars>>

\* ok = Init; ok &= Update(seed); ok &= Update(mix_input); ok &= Final(digest, &digest_len);
\* EVP_MD_CTX_free(ctx).  Each call may fail; all four are made in any case.
ZGS_Digest ==
    /\ zs_pc = "digest"
    /\ zs_trace' = Append(zs_trace, "hash")
    /\ \E init_ok \in {0, 1}, upd1_ok \in {0, 1}, upd2_ok \in {0, 1}, fin_ok \in {0, 1},
          len \in {SEED_SIZE - 1, SHA256_DIGEST_LENGTH} :
         LET h == SHA256(zs_seed \o zs_mix_input)
         IN  /\ zs_ok' = init_ok * upd1_ok * upd2_ok * fin_ok
             /\ IF fin_ok = 1
                THEN /\ zs_digest_len' = len
                     /\ zs_digest' = [k \in 1..EVP_MAX_MD_SIZE |->
                                        IF k <= len THEN h[k] ELSE zs_digest[k]]
                ELSE \* a failed Final reports no length; it may have written before failing
                     /\ UNCHANGED zs_digest_len
                     /\ zs_digest' \in {zs_digest,
                                        [k \in 1..EVP_MAX_MD_SIZE |->
                                            IF k <= len THEN h[k] ELSE zs_digest[k]]}
    /\ zs_pc' = "check"
    /\ UNCHANGED <<zs_caller, zs_seed_ptr, zs_seed, zs_fd, zs_bytes_read, zs_mix_input,
                   zs_rc, main_exit, main_keygen>>
    /\ UNCHANGED <<hexVars, deriveVars, mrVars, searchVars, keyVars>>

cleanse_len == IF zs_digest_len # 0 THEN zs_digest_len ELSE EVP_MAX_MD_SIZE

\* if (!ok || digest_len < SEED_SIZE) { cleanse both; return CRYPTO_FAILURE; }
ZGS_Check ==
    /\ zs_pc = "check"
    /\ IF zs_ok = 0 \/ zs_digest_len < SEED_SIZE
       THEN /\ zs_digest' = Cleanse(zs_digest, cleanse_len)
            /\ zs_mix_input' = Cleanse(zs_mix_input, Len(zs_mix_input))
            /\ ZGS_Return(ZSEED_ERR_CRYPTO_FAILURE)
       ELSE zs_pc' = "xor" /\ UNCHANGED <<zs_rc, zs_digest, zs_mix_input>>
    /\ UNCHANGED <<zs_caller, zs_seed_ptr, zs_seed, zs_fd, zs_bytes_read, zs_digest_len,
                   zs_ok, zs_trace, main_exit, main_keygen>>
    /\ UNCHANGED <<hexVars, deriveVars, mrVars, searchVars, keyVars>>

\* the mixing loop with seed[i] = digest[i]
ZGS_XorOverwrite ==
    /\ zs_pc = "xor"
    /\ zs_seed' = [k \in 1..SEED_SIZE |-> zs_digest[k]]
    /\ zs_trace' = Append(zs_trace, "xor")
    /\ zs_pc' = "cleanse"
    /\ UNCHANGED <<zs_caller, zs_seed_ptr, zs_fd, zs_bytes_read, zs_mix_input, zs_digest,
                   zs_digest_len, zs_ok, zs_rc, main_exit, main_keygen>>
    /\ UNCHANGED <<hexVars, deriveVars, mrVars, searchVars, keyVars>>

\* for (i = 0; i < SEED_SIZE; i++) seed[i] ^= digest[i];
ZGS_Xor ==
    /\ zs_pc = "xor"
    /\ zs_seed' = [k \in 1..SEED_SIZE |-> Xor(zs_seed[k], zs_digest[k])]
    /\ zs_trace' = Append(zs_trace, "xor")
    /\ zs_pc' = "cleanse"
    /\ UNCHANGED <<zs_caller, zs_seed_ptr, zs_fd, zs_bytes_read, zs_mix_input, zs_digest,
                   zs_digest_len, zs_ok, zs_rc, main_exit, main_keygen>>
    /\ UNCHANGED <<hexVars, deriveVars, mrVars, searchVars, keyVars>>

\* cleanse(digest, cleanse_len); cleanse(mix_input); return ZSEED_OK;
ZGS_ReturnOk ==
    /\ zs_pc = "cleanse"
    /\ zs_digest' = Cleanse(zs_digest, cleanse_len)
    /\ zs_mix_input' = Cleanse(zs_mix_input, Len(zs_mix_input))
    /\ ZGS_Return(ZSEED_OK)
    /\ UNCHANGED <<zs_caller, zs_seed_ptr, zs_seed, zs_fd, zs_bytes_read, zs_digest_len,
                   zs_ok, zs_trace, main_exit, main_keygen>>
    /\ UNCHANGED <<hexVars, deriveVars, mrVars, searchVars, keyVars>>

\* init_config returns rc; main: if (seed_rc != ZSEED_OK) return seed_error_exit_code(seed_rc);
Main_SeedFailure ==
    /\ zs_pc = "returned"
    /\ zs_caller = "main"
    /\ zs_rc # ZSEED_OK
    /\ main_exit' = seed_error_exit_code(zs_rc)
    /\ zs_pc' = "exited"
    /\ UNCHANGED <<zs_caller, zs_seed_ptr, zs_seed, zs_fd, zs_bytes_read, zs_mix_input,
                   zs_digest, zs_digest_len, zs_ok, zs_rc, zs_trace, main_keygen>>
    /\ UNCHANGED <<hexVars, deriveVars, mrVars, searchVars, keyVars>>

\* main after a good seed: parse_args may fail (exit 1), else generate_rsa_keypair runs
Main_Continue ==
    /\ zs_pc = "returned"
    /\ zs_caller = "main"
    /\ zs_rc = ZSEED_OK
    /\ \E parsed \in BOOLEAN :
         IF parsed
         THEN main_keygen' = TRUE /\ zs_pc' = "keygen" /\ UNCHANGED main_exit
         ELSE main_exit' = 1 /\ zs_pc' = "exited" /\ UNCHANGED main_keygen
    /\ UNCHANGED <<zs_caller, zs_seed_ptr, zs_seed, zs_fd, zs_bytes_read, zs_mix_input,
                   zs_digest, zs_digest_len, zs_ok, zs_rc, zs_trace>>
    /\ UNCHANGED <<hexVars, deriveVars, mrVars, searchVars, keyVars>>

NextSeed ==
    \/ ZGS_NullCheck
    \/ ZGS_Open
    \/ ZGS_Read
    \/ ZGS_Salt
    \/ ZGS_CtxNew
    \/ ZGS_Digest
    \/ ZGS_Check
    \/ ZGS_Xor
    \/ ZGS_ReturnOk
    \/ Main_SeedFailure
    \/ Main_Continue

SpecSeed == InitSeed /\ [][NextSeed]_vars

(***************************************************************************)
(* Claims about z_generate_seed                                            *)
(***************************************************************************)
Returned == zs_pc \in {"returned", "exited", "keygen"}

Count(seq, x) == Cardinality({k \in 1..Len(seq) : seq[k] = x})

TAG_PREFIX_MAX == 2

\* The largest output_size tried (the source asks for 32 and 256 bytes).
MaxOutputSize == 5

\* the bytes a tag is made of: 'p' and 'q' (a C string holds no NUL)
TagChars == {Lit(112), Lit(113)}

RECURSIVE SeqsUpTo(_, _)
SeqsUpTo(S, n) ==
    IF n = 0 THEN {<<>>}
    ELSE LET shorter == SeqsUpTo(S, n - 1)
         IN  shorter \cup {Append(t, c) : t \in {u \in shorter : Len(u) = n - 1}, c \in S}

\* tags up to one byte longer than the prefix that is used
Tags == SeqsUpTo(TagChars, TAG_PREFIX_MAX + 1)

\* base seeds; a seed byte may equal a tag byte
BaseSeeds == [1..SEED_SIZE -> {Lit(0), Lit(112)}]

Min(a, b) == IF a < b THEN a ELSE b

Take(seq, n) == [k \in 1..Min(n, Len(seq)) |-> seq[k]]

\* tag_len = strlen(tag) clamped to one byte
TagLenOne(tag) == Min(Len(tag), 1)

\* tag_len = strlen(tag) without the clamp
TagLenWhole(tag) == Len(tag)

\* tag_len = strlen(tag); if (tag_len > TAG_PREFIX_MAX) tag_len = TAG_PREFIX_MAX;
TagLen(tag) == Min(Len(tag), TAG_PREFIX_MAX)

\* memset(context, 0); memcpy(context, tag, tag_len); memcpy(context + tag_len, base_seed, SEED_SIZE)
BuildContext(tag, base_seed) ==
    [k \in 1..(SEED_SIZE + TAG_PREFIX_MAX) |->
        IF k <= TagLen(tag) THEN tag[k]
        ELSE IF k <= TagLen(tag) + SEED_SIZE THEN base_seed[k - TagLen(tag)]
        ELSE Zero]

\* the next block hashes the context again instead of the previous digest
RehashContext(digest, context, tag_len) == SHA256(Take(context, tag_len + SEED_SIZE))

\* SHA256(digest, SHA256_DIGEST_LENGTH, digest)
NextDigest(digest, context, tag_len) == SHA256(digest)

\* A call of derive_seed: any seed, tag and size, any of the three pointers
\* NULL, and any prior content of the output and stack buffers.
InitDerive ==
    /\ HexIdle /\ SeedIdle /\ MRIdle /\ SearchIdle /\ KeyIdle
    /\ ds_pc = "entry"
    /\ ds_base_seed \in BaseSeeds
    /\ ds_tag \in Tags
    /\ ds_output_size \in 0..MaxOutputSize
    /\ \/ ds_seed_null = FALSE /\ ds_tag_null = FALSE /\ ds_output_null = FALSE
       \/ ds_seed_null = TRUE /\ ds_tag_null = FALSE /\ ds_output_null = FALSE
       \/ ds_seed_null = FALSE /\ ds_tag_null = TRUE /\ ds_output_null = FALSE
       \/ ds_seed_null = FALSE /\ ds_tag_null = FALSE /\ ds_output_null = TRUE
    /\ \E g \in {Garbage, Lit(9)} :
         /\ ds_output = [k \in 1..ds_output_size |-> g]
         /\ ds_context = [k \in 1..(SEED_SIZE + TAG_PREFIX_MAX) |-> g]
         /\ ds_digest = [k \in 1..SHA256_DIGEST_LENGTH |-> g]
    /\ ds_tag_len = 0
    /\ ds_produced = 0

\* the two early returns, else the context is built
DS_Entry ==
    /\ ds_pc = "entry"
    /\ IF ds_output_null \/ ds_output_size = 0
       THEN /\ ds_pc' = "returned_early"
            /\ UNCHANGED <<ds_output, ds_context, ds_tag_len>>
       ELSE IF ds_seed_null \/ ds_tag_null
       THEN /\ ds_output' = Zeros(ds_output_size)
            /\ ds_pc' = "returned_early"
            /\ UNCHANGED <<ds_context, ds_tag_len>>
       ELSE /\ ds_tag_len' = TagLen(ds_tag)
            /\ ds_context' = BuildContext(ds_tag, ds_base_seed)
            /\ ds_pc' = "hash0"
            /\ UNCHANGED ds_output
    /\ UNCHANGED <<ds_seed_null, ds_tag_null, ds_output_null, ds_base_seed, ds_tag,
                   ds_output_size, ds_digest, ds_produced>>
    /\ UNCHANGED <<hexVars, seedVars, mrVars, searchVars, keyVars>>

\* SHA256(context, tag_len + SEED_SIZE, digest); produced = 0;
DS_Hash0 ==
    /\ ds_pc = "hash0"
    /\ ds_digest' = SHA256(Take(ds_context, ds_tag_len + SEED_SIZE))
    /\ ds_produced' = 0
    /\ ds_pc' = "loop"
    /\ UNCHANGED <<ds_seed_null, ds_tag_null, ds_output_null, ds_base_seed, ds_tag,
                   ds_output_size, ds_output, ds_context, ds_tag_len>>
    /\ UNCHANGED <<hexVars, seedVars, mrVars, searchVars, keyVars>>

\* one iteration of while (produced < output_size)
DS_Chunk ==
    /\ ds_pc = "loop"
    /\ ds_produced < ds_output_size
    /\ LET chunk == IF SHA256_DIGEST_LENGTH > ds_output_size - ds_produced
                    THEN ds_output_size - ds_produced
                    ELSE SHA256_DIGEST_LENGTH
       IN  /\ ds_output' = [k \in 1..ds_output_size |->
                              IF k > ds_produced /\ k <= ds_produced + chunk
                              THEN ds_digest[k - ds_produced]
                              ELSE ds_output[k]]
           /\ ds_produced' = ds_produced + chunk
           /\ IF ds_produced + chunk < ds_output_size
              THEN ds_digest' = NextDigest(ds_digest, ds_context, ds_tag_len)
              ELSE UNCHANGED ds_digest
    /\ UNCHANGED <<ds_pc, ds_seed_null, ds_tag_null, ds_output_null, ds_base_seed, ds_tag,
                   ds_output_size, ds_context, ds_tag_len>>
    /\ UNCHANGED <<hexVars, seedVars, mrVars, searchVars, keyVars>>

\* OPENSSL_cleanse(context); OPENSSL_cleanse(digest); return
DS_Cleanse ==
    /\ ds_pc = "loop"
    /\ ds_produced >= ds_output_size
    /\ ds_context' = Cleanse(ds_context, Len(ds_context))
    /\ ds_digest' = Cleanse(ds_digest, Len(ds_digest))
    /\ ds_pc' = "done"
    /\ UNCHANGED <<ds_seed_null, ds_tag_null, ds_output_null, ds_base_seed, ds_tag,
                   ds_output_size, ds_output, ds_tag_len, ds_produced>>
    /\ UNCHANGED <<hexVars, seedVars, mrVars, searchVars, keyVars>>

NextDerive ==
    \/ DS_Entry
    \/ DS_Hash0
    \/ DS_Chunk
    \/ DS_Cleanse

SpecDerive == InitDerive /\ [][NextDerive]_vars

(***************************************************************************)
(* Claims about derive_seed                                                *)
(***************************************************************************)
\* D0 = SHA256(tag || seed), D(i+1) = SHA256(D(i))
RECURSIVE DigestChain(_, _, _)
DigestChain(tag, seed, i) ==
    IF i = 0 THEN SHA256(Take(tag, TAG_PREFIX_MAX) \o seed)
    ELSE SHA256(DigestChain(tag, seed, i - 1))

\* the first n bytes of D0 || D1 || D2 || ...
DeriveStream(tag, seed, n) ==
    [j \in 1..n |->
        DigestChain(tag, seed, (j - 1) \div SHA256_DIGEST_LENGTH)
            [((j - 1) % SHA256_DIGEST_LENGTH) + 1]]

\* C6: the bytes derive_seed returns are the first output_size bytes of
\* D0 || D1 || ... with D0 = SHA256(tag || seed), D(i+1) = SHA256(D(i)); they
\* depend on (seed, tag, output_size) alone, not on what the buffers held
\* before; for output_size up to one digest they are a prefix of the single
\* hash SHA256(tag || seed).
C6_DeriveStream ==
    ds_pc = "done" =>
        /\ ds_output = DeriveStream(ds_tag, ds_base_seed, ds_output_size)
        /\ Len(ds_output) = ds_output_size
        /\ (ds_output_size <= SHA256_DIGEST_LENGTH /\ Len(ds_tag) <= TAG_PREFIX_MAX) =>
              ds_output = Take(SHA256(ds_tag \o ds_base_seed), ds_output_size)

C6_Witness ==
    /\ ds_pc = "done"
    /\ ds_output_size = 2 * SHA256_DIGEST_LENGTH + 1
    /\ Len(ds_tag) = 1
    /\ ds_output[ds_output_size].src = SHA256(SHA256(ds_tag \o ds_base_seed))

\* C7: for tags of at most TAG_PREFIX_MAX bytes the hashed input tag || seed
\* determines (tag, seed): no other pair gives the input this call hashes, so
\* with a collision-free hash a one-digest output under this tag differs from
\* the output under every other such tag for the same seed.
C7_DomainSeparation ==
    /\ (ds_pc \in {"hash0", "loop"} /\ Len(ds_tag) <= TAG_PREFIX_MAX) =>
          \A t2 \in Tags, s2 \in BaseSeeds :
              (Len(t2) <= TAG_PREFIX_MAX /\ <<t2, s2>> # <<ds_tag, ds_base_seed>>) =>
                  Take(BuildContext(t2, s2), TagLen(t2) + SEED_SIZE)
                      # Take(ds_context, ds_tag_len + SEED_SIZE)
    /\ (ds_pc = "done" /\ Len(ds_tag) <= TAG_PREFIX_MAX
            /\ ds_output_size = SHA256_DIGEST_LENGTH) =>
          \A t2 \in Tags :
              (Len(t2) <= TAG_PREFIX_MAX /\ t2 # ds_tag) =>
                  DeriveStream(t2, ds_base_seed, ds_output_size) # ds_output

C7_Witness ==
    /\ ds_pc = "done"
    /\ ds_tag = <<Lit(112)>>
    /\ ds_output_size = SHA256_DIGEST_LENGTH
    /\ ds_output = SHA256(<<Lit(112)>> \o ds_base_seed)
    /\ ds_output # DeriveStream(<<Lit(113)>>, ds_base_seed, ds_output_size)

(***************************************************************************)
(* Miller-Rabin: mr_context_init, map_witness_into_range, the two witness  *)
(* generators, miller_rabin_round, candidate_is_probable_prime             *)
(***************************************************************************)
MR_GEODESIC_WITNESSES == 6

MR_STANDARD_WITNESSES == 8

MR_STANDARD_BASES == <<2, 3, 5, 7, 11, 13, 17, 19>>

\* The largest candidate handed to candidate_is_probable_prime on its own.
MaxCandidate == 700

\* A digest read as an integer lies below 2^DigestBits (256 bits in the source).
DigestBits == 9

RECURSIVE Pow2(_)
Pow2(k) == IF k = 0 THEN 1 ELSE 2 * Pow2(k - 1)

DigestRange == Pow2(DigestBits)

\* cfg->seed, named by a small number, and the hint values tried
SeedIds == 0..1

HintVals == 0..1

\* mpz_import of SHA256(candidate_bytes || seed || hint || i): the digest as an
\* integer.  SHA-256 is external; any fixed function of the four inputs stands
\* for it here, and the claims are also checked for every digest value.
WitnessDigest(candidate, seed, hint, i) ==
    (candidate * 37 + seed * 101 + hint * 53 + i * 29 + i * i * candidate) % DigestRange

\* while (mpz_even_p(d)) { d >>= 1; r++; }
RECURSIVE OddPart(_)
OddPart(d) == IF d % 2 = 0 THEN OddPart(d \div 2) ELSE d

RECURSIVE TwoExponent(_)
TwoExponent(d) == IF d % 2 = 0 THEN 1 + TwoExponent(d \div 2) ELSE 0

\* the two bounds of mr_context_init that map_witness_into_range reads
MrBounds(n) ==
    [n_minus_1 |-> n - 1, n_minus_3 |-> IF n > 3 THEN n - 3 ELSE 0]

\* mr_context_init, for the odd n > 2 it is called with
MrContext(n) ==
    [n |-> n, n_minus_1 |-> n - 1, n_minus_3 |-> IF n > 3 THEN n - 3 ELSE 0,
     d |-> OddPart(n - 1), r |-> TwoExponent(n - 1)]

\* the fold taken modulo n - 1 instead of n - 3
MapWitnessModNMinus1(ctx, witness) ==
    IF witness < 2 THEN 2
    ELSE IF witness >= ctx.n_minus_1
         THEN IF ctx.n_minus_3 <= 1 THEN 2 ELSE (witness % ctx.n_minus_1) + 2
         ELSE witness

map_witness_into_range(ctx, witness) ==
    IF witness < 2 THEN 2
    ELSE IF witness >= ctx.n_minus_1
         THEN IF ctx.n_minus_3 <= 1 THEN 2 ELSE (witness % ctx.n_minus_3) + 2
         ELSE witness

generate_standard_witnesses(ctx) ==
    [i \in 1..MR_STANDARD_WITNESSES |-> map_witness_into_range(ctx, MR_STANDARD_BASES[i])]

generate_geodesic_witnesses(candidate, seed, hint, ctx) ==
    IF ctx.n_minus_3 <= 1
    THEN [i \in 1..MR_GEODESIC_WITNESSES |-> 2]
    ELSE [i \in 1..MR_GEODESIC_WITNESSES |->
            map_witness_into_range(ctx, WitnessDigest(candidate, seed, hint, i - 1))]

\* mpz_powm: base^e mod n
RECURSIVE PowMod(_, _, _)
PowMod(base, e, n) ==
    IF e = 0 THEN 1 % n
    ELSE LET h == PowMod(base, e \div 2, n)
             sq == (h * h) % n
         IN  IF e % 2 = 1 THEN (sq * (base % n)) % n ELSE sq

\* the squaring loop: for (i = 1; i < r; ++i) { x = x^2 mod n; if (x == n-1) return 1; }
RECURSIVE SquaringLoop(_, _, _)
SquaringLoop(ctx, x, i) ==
    IF i >= ctx.r THEN 0
    ELSE LET x2 == (x * x) % ctx.n
         IN  IF x2 = ctx.n_minus_1 THEN 1 ELSE SquaringLoop(ctx, x2, i + 1)

\* a round that does not accept x == n - 1 before the loop
MillerRabinRoundNoMinusOne(ctx, witness) ==
    LET x == PowMod(witness, ctx.d, ctx.n)
    IN  IF x = 1 THEN 1 ELSE SquaringLoop(ctx, x, 1)

\* a round whose final return reports a pass
MillerRabinRoundNeverFails(ctx, witness) ==
    LET x == PowMod(witness, ctx.d, ctx.n)
    IN  IF x = 1 \/ x = ctx.n_minus_1 THEN 1
        ELSE IF SquaringLoop(ctx, x, 1) = 1 THEN 1 ELSE 1

miller_rabin_round(ctx, witness) ==
    LET x == PowMod(witness, ctx.d, ctx.n)
    IN  IF x = 1 \/ x = ctx.n_minus_1 THEN 1 ELSE SquaringLoop(ctx, x, 1)

\* candidate_is_probable_prime as one function: the result of the rounds below
candidate_is_probable_prime(candidate, seed, hint) ==
    IF candidate < 2 THEN 0
    ELSE IF candidate = 2 THEN 1
    ELSE IF candidate % 2 = 0 THEN 0
    ELSE LET ctx == MrContext(candidate)
             geodesic == generate_geodesic_witnesses(candidate, seed, hint, ctx)
             standard == generate_standard_witnesses(ctx)
         IN  IF \E i \in 1..MR_GEODESIC_WITNESSES : miller_rabin_round(ctx, geodesic[i]) = 0
             THEN 0
             ELSE IF \E i \in 1..MR_STANDARD_WITNESSES :
                        miller_rabin_round(ctx, standard[i]) = 0
             THEN 0
             ELSE 1

\* A call candidate_is_probable_prime(candidate, cfg, hint)
InitMR ==
    /\ HexIdle /\ SeedIdle /\ DeriveIdle /\ SearchIdle /\ KeyIdle
    /\ mr_pc = "entry"
    /\ mr_n \in 0..MaxCandidate
    /\ mr_seed \in SeedIds
    /\ mr_hint \in HintVals
    /\ mr_ctx = NoContext
    /\ mr_geodesic = <<>>
    /\ mr_standard = <<>>
    /\ mr_i = 0
    /\ mr_result = 0
    /\ mr_rounds = <<>>

\* the three trivial returns; else the context and both witness arrays are set up
MR_Entry ==
    /\ mr_pc = "entry"
    /\ IF mr_n < 2 THEN
            /\ mr_result' = 0 /\ mr_pc' = "done"
            /\ UNCHANGED <<mr_ctx, mr_geodesic, mr_standard>>
       ELSE IF mr_n = 2 THEN
            /\ mr_result' = 1 /\ mr_pc' = "done"
            /\ UNCHANGED <<mr_ctx, mr_geodesic, mr_standard>>
       ELSE IF mr_n % 2 = 0 THEN
            /\ mr_result' = 0 /\ mr_pc' = "done"
            /\ UNCHANGED <<mr_ctx, mr_geodesic, mr_standard>>
       ELSE /\ mr_ctx' = MrContext(mr_n)
            /\ mr_geodesic' = generate_geodesic_witnesses(mr_n, mr_seed, mr_hint, MrContext(mr_n))
            /\ mr_standard' = generate_standard_witnesses(MrContext(mr_n))
            /\ mr_pc' = "geodesic"
            /\ UNCHANGED mr_result
    /\ UNCHANGED <<mr_n, mr_seed, mr_hint, mr_i, mr_rounds>>
    /\ UNCHANGED <<hexVars, seedVars, deriveVars, searchVars, keyVars>>

\* one iteration of the loop over the geodesic witnesses
MR_GeodesicRound ==
    /\ mr_pc = "geodesic"
    /\ mr_i < MR_GEODESIC_WITNESSES
    /\ mr_rounds' = Append(mr_rounds, <<"geodesic", mr_i>>)
    /\ IF miller_rabin_round(mr_ctx, mr_geodesic[mr_i + 1]) = 0
       THEN mr_result' = 0 /\ mr_pc' = "done" /\ UNCHANGED mr_i
       ELSE mr_i' = mr_i + 1 /\ UNCHANGED <<mr_result, mr_pc>>
    /\ UNCHANGED <<mr_n, mr_seed, mr_hint, mr_ctx, mr_geodesic, mr_standard>>
    /\ UNCHANGED <<hexVars, seedVars, deriveVars, searchVars, keyVars>>

\* the geodesic loop ends and the loop over the standard witnesses is passed over
MR_GeodesicDoneSkipsStandard ==
    /\ mr_pc = "geodesic"
    /\ mr_i = MR_GEODESIC_WITNESSES
    /\ mr_pc' = "standard"
    /\ mr_i' = MR_STANDARD_WITNESSES
    /\ UNCHANGED <<mr_n, mr_seed, mr_hint, mr_ctx, mr_geodesic, mr_standard, mr_result,
                   mr_rounds>>
    /\ UNCHANGED <<hexVars, seedVars, deriveVars, searchVars, keyVars>>

\* the geodesic loop ends; the loop over the standard witnesses starts
MR_GeodesicDone ==
    /\ mr_pc = "geodesic"
    /\ mr_i = MR_GEODESIC_WITNESSES
    /\ mr_pc' = "standard"
    /\ mr_i' = 0
    /\ UNCHANGED <<mr_n, mr_seed, mr_hint, mr_ctx, mr_geodesic, mr_standard, mr_result,
                   mr_rounds>>
    /\ UNCHANGED <<hexVars, seedVars, deriveVars, searchVars, keyVars>>

\* one iteration of the loop over the standard witnesses
MR_StandardRound ==
    /\ mr_pc = "standard"
    /\ mr_i < MR_STANDARD_WITNESSES
    /\ mr_rounds' = Append(mr_rounds, <<"standard", mr_i>>)
    /\ IF miller_rabin_round(mr_ctx, mr_standard[mr_i + 1]) = 0
       THEN mr_result' = 0 /\ mr_pc' = "done" /\ UNCHANGED mr_i
       ELSE mr_i' = mr_i + 1 /\ UNCHANGED <<mr_result, mr_pc>>
    /\ UNCHANGED <<mr_n, mr_seed, mr_hint, mr_ctx, mr_geodesic, mr_standard>>
    /\ UNCHANGED <<hexVars, seedVars, deriveVars, searchVars, keyVars>>

\* every round passed: return 1
MR_Accept ==
    /\ mr_pc = "standard"
    /\ mr_i = MR_STANDARD_WITNESSES
    /\ mr_result' = 1
    /\ mr_pc' = "done"
    /\ UNCHANGED <<mr_n, mr_seed, mr_hint, mr_ctx, mr_geodesic, mr_standard, mr_i,
                   mr_rounds>>
    /\ UNCHANGED <<hexVars, seedVars, deriveVars, searchVars, keyVars>>

NextMR ==
    \/ MR_Entry
    \/ MR_GeodesicRound
    \/ MR_GeodesicDone
    \/ MR_StandardRound
    \/ MR_Accept

SpecMR == InitMR /\ [][NextMR]_vars

(***************************************************************************)
(* Claims about the primality test                                         *)
(***************************************************************************)
\* primality by trial division
IsPrime(n) == n >= 2 /\ \A k \in 2..(n - 1) : k * k > n \/ n % k # 0

\* the stepwise run and the one-shot function agree (a consistency check of
\* the model, used by the search below)
MR_StepwiseAgrees ==
    mr_pc = "done" => mr_result = candidate_is_probable_prime(mr_n, mr_seed, mr_hint)

\* C2: a prime is never rejected.  For every prime n in range the call returns
\* 1, every range-mapped fixed base passes its round, and so does the
\* range-mapped image of every possible digest value (whatever seed and hint
\* produced it).
C2_PrimesAccepted ==
    (mr_pc = "done" /\ IsPrime(mr_n)) =>
        /\ mr_result = 1
        /\ mr_n > 2 =>
            /\ Len(mr_rounds) = MR_GEODESIC_WITNESSES + MR_STANDARD_WITNESSES
            /\ \A i \in 1..MR_STANDARD_WITNESSES :
                  miller_rabin_round(mr_ctx, mr_standard[i]) = 1
            /\ \A w \in 0..(DigestRange - 1) :
                  miller_rabin_round(mr_ctx, map_witness_into_range(mr_ctx, w)) = 1

C2_Witness ==
    /\ mr_pc = "done" /\ mr_n = 13 /\ mr_result = 1
    /\ mr_standard[7] # 17
    /\ Len(mr_rounds) = 14

\* C3: a non-prime is never accepted.  n < 2, even n > 2 and odd composites
\* all return 0, and for every odd composite at least one of the range-mapped
\* fixed bases fails its round, so no choice of seed-derived witnesses could
\* make the call return 1.
C3_CompositesRejected ==
    /\ (mr_pc = "done" /\ ~IsPrime(mr_n)) => mr_result = 0
    /\ (mr_pc # "entry" /\ ~IsPrime(mr_n) /\ mr_n > 2 /\ mr_n % 2 = 1) =>
          /\ mr_ctx.n = mr_n
          /\ \E i \in 1..MR_STANDARD_WITNESSES :
                miller_rabin_round(mr_ctx, mr_standard[i]) = 0

C3_Witness ==
    /\ mr_pc = "done" /\ mr_n = 561 /\ mr_result = 0
    /\ Len(mr_rounds) >= 1

\* C4: for n > 4 every witness lies in [2, n-2]: a value below 2 becomes 2, a
\* value >= n-1 becomes (w mod (n-3)) + 2, a value already in range is kept;
\* for n <= 4 every witness is 2.  Checked for the witnesses the call
\* generated and for every digest value.
C4_WitnessRange ==
    /\ (mr_pc \in {"geodesic", "standard", "done"} /\ mr_n > 4 /\ mr_n % 2 = 1) =>
          /\ \A i \in 1..MR_GEODESIC_WITNESSES :
                2 <= mr_geodesic[i] /\ mr_geodesic[i] <= mr_n - 2
          /\ \A i \in 1..MR_STANDARD_WITNESSES :
                2 <= mr_standard[i] /\ mr_standard[i] <= mr_n - 2
    /\ (mr_pc \in {"geodesic", "standard", "done"} /\ mr_n = 3) =>
          /\ \A i \in 1..MR_GEODESIC_WITNESSES : mr_geodesic[i] = 2
          /\ \A i \in 1..MR_STANDARD_WITNESSES : mr_standard[i] = 2
    /\ mr_pc = "entry" =>
          \A w \in 0..(DigestRange - 1) :
              LET m == map_witness_into_range(MrBounds(mr_n), w)
              IN  IF mr_n > 4
                  THEN /\ 2 <= m /\ m <= mr_n - 2
                       /\ w < 2 => m = 2
                       /\ w >= mr_n - 1 => m = (w % (mr_n - 3)) + 2
                       /\ (2 <= w /\ w <= mr_n - 2) => m = w
                  ELSE m = 2

C4_Witness ==
    /\ mr_pc = "geodesic" /\ mr_n = 101
    /\ \E i \in 1..MR_GEODESIC_WITNESSES :
          /\ WitnessDigest(mr_n, mr_seed, mr_hint, i - 1) >= mr_n - 1
          /\ mr_geodesic[i] = (WitnessDigest(mr_n, mr_seed, mr_hint, i - 1) % 98) + 2
    /\ mr_standard = <<2, 3, 5, 7, 11, 13, 17, 19>>

(***************************************************************************)
(* x931_too_close_2048, search_prime_candidates, guided_prime_search       *)
(***************************************************************************)
\* The modulus width: 2048 bits in the source (z5d_key_gen.c:526); scaled down.
WidthBits == 6

\* The number of leading bits x931_too_close_2048 compares: 100 in the source.
CloseBits == 2

\* The width of unsigned long: 64 bits in the source; scaled down.
ULongBits == 4

\* The largest max_attempts tried.  The callers pass 5000 and 10000
\* (z5d_key_gen.c:921, 994), far below ULONG_MAX / 2, and so does the model.
MaxAttempts == 6

ULONG_MAX == Pow2(ULongBits) - 1

\* unsigned long arithmetic wraps modulo ULONG_MAX + 1
ULong(x) == x % (ULONG_MAX + 1)

\* mpz_tstbit, mpz_setbit, mpz_clrbit
TstBit(x, b) == (x \div Pow2(b)) % 2 = 1

SetBit(x, b) == IF TstBit(x, b) THEN x ELSE x + Pow2(b)

ClrBit(x, b) == IF TstBit(x, b) THEN x - Pow2(b) ELSE x

\* a ^ b on unsigned long
RECURSIVE BitXor(_, _)
BitXor(a, b) ==
    IF a = 0 THEN b
    ELSE IF b = 0 THEN a
    ELSE ((a + b) % 2) + 2 * BitXor(a \div 2, b \div 2)

\* mpz_fdiv_q_2exp(ah, a, 2048 - 100); mpz_fdiv_q_2exp(bh, b, 2048 - 100); ah == bh
x931_too_close_2048(a, b) ==
    (a \div Pow2(WidthBits - CloseBits)) = (b \div Pow2(WidthBits - CloseBits))

\* cfg->seed of the run
CfgSeed == 1

\* the clamp without mpz_setbit(candidate, limit_bit - 1)
LimitCheckNoSetBit(candidate, limit_bit, clamp_on_limit) ==
    IF limit_bit > 0 /\ TstBit(candidate, limit_bit)
    THEN IF clamp_on_limit = 1
         THEN [candidate |-> ClrBit(candidate, limit_bit), stop |-> FALSE]
         ELSE [candidate |-> candidate, stop |-> TRUE]
    ELSE [candidate |-> candidate, stop |-> FALSE]

\* the limit check after a step: clamp back into the width, or stop
\* [candidate, stop]
LimitCheck(candidate, limit_bit, clamp_on_limit) ==
    IF limit_bit > 0 /\ TstBit(candidate, limit_bit)
    THEN IF clamp_on_limit = 1
         THEN [candidate |-> SetBit(ClrBit(candidate, limit_bit), limit_bit - 1), stop |-> FALSE]
         ELSE [candidate |-> candidate, stop |-> TRUE]
    ELSE [candidate |-> candidate, stop |-> FALSE]

\* the proximity guard is left out
AcceptsIgnoringGuard(candidate, ref, enforce) == TRUE

\* !enforce_not_too_close || !too_close_ref || !x931_too_close_2048(*too_close_ref, candidate)
\* (too_close_ref = 0 stands for the NULL pointer)
Accepts(candidate, ref, enforce) ==
    enforce = 0 \/ ref = 0 \/ ~x931_too_close_2048(ref, candidate)

\* the fold without forcing the top bit
FoldStartNoTopBit(estimated_start) ==
    SetBit(estimated_start % Pow2(WidthBits), 0)

\* base_start = estimated_start mod 2^2048, bit 2047 set, bit 0 set
FoldStart(estimated_start) ==
    SetBit(SetBit(estimated_start % Pow2(WidthBits), WidthBits - 1), 0)

\* the segment without the floor of one step
SegmentSizeNoFloor(remaining, distance) ==
    LET twice_seg == IF remaining > ULONG_MAX \div 2 THEN ULONG_MAX ELSE remaining * 2
    IN  IF distance <= twice_seg
        THEN LET half == distance \div 2
                 safe_steps == half
             IN  IF safe_steps < remaining THEN safe_steps ELSE remaining
        ELSE remaining

\* the segment of guided_prime_search: remaining, cut down to the steps that
\* stay below the modulus
SegmentSize(remaining, distance) ==
    LET twice_seg == IF remaining > ULONG_MAX \div 2 THEN ULONG_MAX ELSE remaining * 2
    IN  IF distance <= twice_seg
        THEN LET half == distance \div 2
                 safe_steps == IF half = 0 THEN 1 ELSE half
             IN  IF safe_steps < remaining THEN safe_steps ELSE remaining
        ELSE remaining

Modulus == Pow2(WidthBits)

PrimesInWidth == {p \in (Modulus \div 2)..(Modulus - 1) : IsPrime(p)}

\* reference primes: the smallest and the largest prime of the width
RefPrimes ==
    {CHOOSE p \in PrimesInWidth : \A q \in PrimesInWidth : p <= q,
     CHOOSE p \in PrimesInWidth : \A q \in PrimesInWidth : p >= q}

\* estimated starts: the values whose searches can reach the modulus, the bottom
\* of the width's upper half, and values that the fold has to reduce, to lift
\* into the upper half or to make odd
EstimatedStarts ==
    ((Modulus - 2 * MaxAttempts - 2)..(Modulus - 1))
        \cup {Modulus \div 2, Modulus \div 2 + 7}
        \cup {0, 1, Modulus \div 2 - 2, Modulus, Modulus + Modulus \div 4 - 2, 2 * Modulus - 1,
              3 * Modulus + Modulus \div 2 + 4}

\* starts of a direct call: odd and even, near the top of the width and away from it
DirectStarts ==
    {Modulus \div 2 + 1, Modulus - 5, Modulus - 1, Modulus - 6, 3}

HintSeeds == {ULONG_MAX - 1}

\* the caller's arguments that both entry points share
SearchEnvironment ==
    /\ omp_max_threads \in 1..MaxThreads
    /\ too_close_ref \in {0} \cup RefPrimes
    /\ enforce_not_too_close \in {0, 1}
    /\ result_out = 0
    /\ gp_base_start = 0
    /\ gp_current_start = 0
    /\ gp_remaining = 0
    /\ gp_offset = 0
    /\ gp_segment = 0
    /\ gp_found = 0
    /\ gp_used_parallel = 0
    /\ gp_attempts_used = 0
    /\ sp_used_parallel = 0
    /\ sp_attempts_used = 0
    /\ sp_ret = 0
    /\ sp_total_threads = 0
    /\ sp_found = 0
    /\ sp_found_prime = 0
    /\ sp_found_attempt = 0
    /\ sp_limit_reached = 0
    /\ sp_candidate = 0
    /\ sp_attempt = 0
    /\ th_pc = [k \in Threads |-> "off"]
    /\ th_candidate = [k \in Threads |-> 0]
    /\ th_attempt_index = [k \in Threads |-> 0]
    /\ tests = {}

\* a call of guided_prime_search
InitGuided ==
    /\ caller = "guided"
    /\ gp_pc = "entry"
    /\ gp_estimated_start \in EstimatedStarts
    /\ gp_max_attempts \in 0..MaxAttempts
    /\ gp_hint_seed \in HintSeeds
    /\ sp_pc = "idle"
    /\ sp_start = 0
    /\ sp_max_attempts = 0
    /\ sp_hint_seed = 0
    /\ sp_limit_bit = 0
    /\ sp_clamp_on_limit = 0

\* a call of search_prime_candidates from outside guided_prime_search
InitDirect ==
    /\ caller = "direct"
    /\ gp_pc = "idle"
    /\ gp_estimated_start = 0
    /\ gp_max_attempts = 0
    /\ gp_hint_seed = 0
    /\ sp_pc = "entry"
    /\ sp_start \in DirectStarts
    /\ sp_max_attempts \in 0..MaxAttempts
    /\ sp_hint_seed \in HintSeeds
    /\ \/ sp_limit_bit = 0 /\ sp_clamp_on_limit = 0
       \/ sp_limit_bit = WidthBits /\ sp_clamp_on_limit \in {0, 1}

InitSearch ==
    /\ HexIdle
    /\ SeedIdle
    /\ DeriveIdle
    /\ MRIdle
    /\ KeyIdle
    /\ SearchEnvironment
    /\ (InitGuided \/ InitDirect)

\* the record of one call of candidate_is_probable_prime
TestRecord(by, idx, candidate, hint_value) ==
    [off |-> gp_offset, by |-> by, idx |-> idx, c |-> candidate, hint |-> hint_value,
     prime |-> candidate_is_probable_prime(candidate, CfgSeed, hint_value)]

\* guided_prime_search up to the loop: outputs preset, the start folded
GP_Entry ==
    /\ gp_pc = "entry"
    /\ gp_used_parallel' = 0
    /\ gp_attempts_used' = gp_max_attempts
    /\ gp_base_start' = FoldStart(gp_estimated_start)
    /\ gp_current_start' = FoldStart(gp_estimated_start)
    /\ gp_remaining' = gp_max_attempts
    /\ gp_offset' = 0
    /\ gp_found' = 0
    /\ gp_pc' = "loop"
    /\ UNCHANGED <<caller, omp_max_threads, too_close_ref, enforce_not_too_close, result_out,
                   gp_estimated_start, gp_max_attempts, gp_hint_seed, gp_segment,
                   searchCallVars, tests>>
    /\ UNCHANGED <<hexVars, seedVars, deriveVars, mrVars, keyVars>>

\* the head of the loop: leave it, or size the segment and call the search
GP_Segment ==
    /\ gp_pc = "loop"
    /\ LET distance == Modulus - gp_current_start
           segment == SegmentSize(gp_remaining, distance)
       IN  IF gp_remaining = 0 \/ distance <= 0
           THEN /\ gp_pc' = "returned"
                /\ UNCHANGED <<gp_segment, searchCallVars>>
           ELSE /\ gp_pc' = "call"
                /\ gp_segment' = segment
                /\ sp_pc' = "entry"
                /\ sp_start' = gp_current_start
                /\ sp_max_attempts' = segment
                /\ sp_hint_seed' = ULong(gp_hint_seed + gp_offset)
                /\ sp_limit_bit' = WidthBits
                /\ sp_clamp_on_limit' = 0
                /\ sp_attempts_used' = segment
                /\ sp_used_parallel' = 0
                /\ UNCHANGED <<sp_ret, sp_total_threads, sp_found, sp_found_prime,
                               sp_found_attempt, sp_limit_reached, sp_candidate, sp_attempt,
                               th_pc, th_candidate, th_attempt_index>>
    /\ UNCHANGED <<caller, omp_max_threads, too_close_ref, enforce_not_too_close, result_out,
                   gp_estimated_start, gp_max_attempts, gp_hint_seed, gp_base_start,
                   gp_current_start, gp_remaining, gp_offset, gp_found, gp_used_parallel,
                   gp_attempts_used, tests>>
    /\ UNCHANGED <<hexVars, seedVars, deriveVars, mrVars, keyVars>>

\* the step after a segment without the break at the modulus
GP_AfterSegmentNoBreak ==
    /\ gp_pc = "call"
    /\ sp_pc = "returned"
    /\ gp_found' = sp_ret
    /\ sp_pc' = "idle"
    /\ IF sp_ret = 1
       THEN /\ gp_used_parallel' = (IF sp_used_parallel = 1 THEN 1 ELSE gp_used_parallel)
            /\ gp_attempts_used' = ULong(gp_offset + sp_attempts_used)
            /\ gp_pc' = "returned"
            /\ UNCHANGED <<gp_offset, gp_remaining, gp_current_start>>
       ELSE LET offset == ULong(gp_offset + gp_segment)
                remaining == gp_remaining - gp_segment
                current_start == gp_base_start + ULong(2 * offset)
            IN  /\ gp_offset' = offset
                /\ gp_remaining' = remaining
                /\ IF remaining = 0
                   THEN /\ gp_pc' = "returned"
                        /\ UNCHANGED gp_current_start
                   ELSE /\ gp_current_start' = current_start
                        /\ gp_pc' = "loop"
                /\ UNCHANGED <<gp_used_parallel, gp_attempts_used>>
    /\ UNCHANGED <<caller, omp_max_threads, too_close_ref, enforce_not_too_close, result_out,
                   gp_estimated_start, gp_max_attempts, gp_hint_seed, gp_base_start,
                   gp_segment, sp_start, sp_max_attempts, sp_hint_seed, sp_limit_bit,
                   sp_clamp_on_limit, sp_used_parallel, sp_attempts_used, sp_ret,
                   sp_total_threads, sp_found, sp_found_prime, sp_found_attempt,
                   sp_limit_reached, sp_candidate, sp_attempt, th_pc, th_candidate,
                   th_attempt_index, tests>>
    /\ UNCHANGED <<hexVars, seedVars, deriveVars, mrVars, keyVars>>

\* after the segment's search: report the find, or move on to the next segment
GP_AfterSegment ==
    /\ gp_pc = "call"
    /\ sp_pc = "returned"
    /\ gp_found' = sp_ret
    /\ sp_pc' = "idle"
    /\ IF sp_ret = 1
       THEN /\ gp_used_parallel' = (IF sp_used_parallel = 1 THEN 1 ELSE gp_used_parallel)
            /\ gp_attempts_used' = ULong(gp_offset + sp_attempts_used)
            /\ gp_pc' = "returned"
            /\ UNCHANGED <<gp_offset, gp_remaining, gp_current_start>>
       ELSE LET offset == ULong(gp_offset + gp_segment)
                remaining == gp_remaining - gp_segment
                current_start == gp_base_start + ULong(2 * offset)
            IN  /\ gp_offset' = offset
                /\ gp_remaining' = remaining
                /\ IF remaining = 0
                   THEN /\ gp_pc' = "returned"
                        /\ UNCHANGED gp_current_start
                   ELSE /\ gp_current_start' = current_start
                        /\ gp_pc' = IF current_start >= Modulus THEN "returned" ELSE "loop"
                /\ UNCHANGED <<gp_used_parallel, gp_attempts_used>>
    /\ UNCHANGED <<caller, omp_max_threads, too_close_ref, enforce_not_too_close, result_out,
                   gp_estimated_start, gp_max_attempts, gp_hint_seed, gp_base_start,
                   gp_segment, sp_start, sp_max_attempts, sp_hint_seed, sp_limit_bit,
                   sp_clamp_on_limit, sp_used_parallel, sp_attempts_used, sp_ret,
                   sp_total_threads, sp_found, sp_found_prime, sp_found_attempt,
                   sp_limit_reached, sp_candidate, sp_attempt, th_pc, th_candidate,
                   th_attempt_index, tests>>
    /\ UNCHANGED <<hexVars, seedVars, deriveVars, mrVars, keyVars>>

\* the entry without *attempts_used = max_attempts
SP_EntryNoPreset ==
    /\ sp_pc = "entry"
    /\ sp_used_parallel' = 0
    /\ sp_attempts_used' = sp_attempts_used
    /\ LET thread_count == Min(omp_max_threads, sp_max_attempts)
       IN  IF sp_max_attempts = 0
           THEN /\ sp_ret' = 0
                /\ sp_pc' = "returned"
                /\ UNCHANGED <<sp_total_threads, sp_found, sp_found_prime, sp_found_attempt,
                               sp_limit_reached, sp_candidate, sp_attempt, th_pc,
                               th_candidate, th_attempt_index>>
           ELSE IF omp_max_threads > 1 /\ sp_max_attempts > 1 /\ thread_count > 1
           THEN /\ sp_pc' = "parallel"
                /\ sp_total_threads' = thread_count
                /\ sp_found' = 0
                /\ sp_found_prime' = 0
                /\ sp_found_attempt' = sp_max_attempts
                /\ sp_limit_reached' = 0
                /\ th_pc' = [k \in Threads |-> IF k < thread_count THEN "init" ELSE "off"]
                /\ UNCHANGED <<sp_ret, sp_candidate, sp_attempt, th_candidate,
                               th_attempt_index>>
           ELSE /\ sp_pc' = "sequential"
                /\ sp_candidate' = sp_start
                /\ sp_attempt' = 0
                /\ UNCHANGED <<sp_ret, sp_total_threads, sp_found, sp_found_prime,
                               sp_found_attempt, sp_limit_reached, th_pc, th_candidate,
                               th_attempt_index>>
    /\ UNCHANGED <<sp_start, sp_max_attempts, sp_hint_seed, sp_limit_bit, sp_clamp_on_limit>>
    /\ UNCHANGED <<envVars, result_out, guidedVars, tests>>
    /\ UNCHANGED <<hexVars, seedVars, deriveVars, mrVars, keyVars>>

\* an entry that starts every available thread
SP_EntryAllThreads ==
    /\ sp_pc = "entry"
    /\ sp_used_parallel' = 0
    /\ sp_attempts_used' = sp_max_attempts
    /\ LET thread_count == omp_max_threads
       IN  IF sp_max_attempts = 0
           THEN /\ sp_ret' = 0
                /\ sp_pc' = "returned"
                /\ UNCHANGED <<sp_total_threads, sp_found, sp_found_prime, sp_found_attempt,
                               sp_limit_reached, sp_candidate, sp_attempt, th_pc,
                               th_candidate, th_attempt_index>>
           ELSE IF omp_max_threads > 1 /\ sp_max_attempts > 1 /\ thread_count > 1
           THEN /\ sp_pc' = "parallel"
                /\ sp_total_threads' = thread_count
                /\ sp_found' = 0
                /\ sp_found_prime' = 0
                /\ sp_found_attempt' = sp_max_attempts
                /\ sp_limit_reached' = 0
                /\ th_pc' = [k \in Threads |-> IF k < thread_count THEN "init" ELSE "off"]
                /\ UNCHANGED <<sp_ret, sp_candidate, sp_attempt, th_candidate,
                               th_attempt_index>>
           ELSE /\ sp_pc' = "sequential"
                /\ sp_candidate' = sp_start
                /\ sp_attempt' = 0
                /\ UNCHANGED <<sp_ret, sp_total_threads, sp_found, sp_found_prime,
                               sp_found_attempt, sp_limit_reached, th_pc, th_candidate,
                               th_attempt_index>>
    /\ UNCHANGED <<sp_start, sp_max_attempts, sp_hint_seed, sp_limit_bit, sp_clamp_on_limit>>
    /\ UNCHANGED <<envVars, result_out, guidedVars, tests>>
    /\ UNCHANGED <<hexVars, seedVars, deriveVars, mrVars, keyVars>>

\* search_prime_candidates up to its first loop: outputs preset, nothing to do
\* for max_attempts = 0, the parallel region when OpenMP offers more than one
\* thread and there is more than one attempt, the sequential loop otherwise
\* (a build without OpenMP is the case omp_max_threads = 1)
SP_Entry ==
    /\ sp_pc = "entry"
    /\ sp_used_parallel' = 0
    /\ sp_attempts_used' = sp_max_attempts
    /\ LET thread_count == Min(omp_max_threads, sp_max_attempts)
       IN  IF sp_max_attempts = 0
           THEN /\ sp_ret' = 0
                /\ sp_pc' = "returned"
                /\ UNCHANGED <<sp_total_threads, sp_found, sp_found_prime, sp_found_attempt,
                               sp_limit_reached, sp_candidate, sp_attempt, th_pc,
                               th_candidate, th_attempt_index>>
           ELSE IF omp_max_threads > 1 /\ sp_max_attempts > 1 /\ thread_count > 1
           THEN /\ sp_pc' = "parallel"
                /\ sp_total_threads' = thread_count
                /\ sp_found' = 0
                /\ sp_found_prime' = 0
                /\ sp_found_attempt' = sp_max_attempts
                /\ sp_limit_reached' = 0
                /\ th_pc' = [k \in Threads |-> IF k < thread_count THEN "init" ELSE "off"]
                /\ UNCHANGED <<sp_ret, sp_candidate, sp_attempt, th_candidate,
                               th_attempt_index>>
           ELSE /\ sp_pc' = "sequential"
                /\ sp_candidate' = sp_start
                /\ sp_attempt' = 0
                /\ UNCHANGED <<sp_ret, sp_total_threads, sp_found, sp_found_prime,
                               sp_found_attempt, sp_limit_reached, th_pc, th_candidate,
                               th_attempt_index>>
    /\ UNCHANGED <<sp_start, sp_max_attempts, sp_hint_seed, sp_limit_bit, sp_clamp_on_limit>>
    /\ UNCHANGED <<envVars, result_out, guidedVars, tests>>
    /\ UNCHANGED <<hexVars, seedVars, deriveVars, mrVars, keyVars>>

\* a worker that starts counting its attempts at 0
TH_InitIndexZero(k) ==
    /\ sp_pc = "parallel"
    /\ th_pc[k] = "init"
    /\ LET first == LimitCheck(sp_start + ULong(2 * k), sp_limit_bit, sp_clamp_on_limit)
       IN  /\ th_attempt_index' = [th_attempt_index EXCEPT ![k] = 0]
           /\ th_candidate' = [th_candidate EXCEPT ![k] = first.candidate]
           /\ sp_limit_reached' = (IF first.stop THEN 1 ELSE sp_limit_reached)
           /\ th_pc' = [th_pc EXCEPT ![k] = IF first.stop THEN "done" ELSE "poll"]
    /\ UNCHANGED <<sp_pc, sp_start, sp_max_attempts, sp_hint_seed, sp_limit_bit,
                   sp_clamp_on_limit, sp_used_parallel, sp_attempts_used, sp_ret,
                   sp_total_threads, sp_found, sp_found_prime, sp_found_attempt,
                   sp_candidate, sp_attempt>>
    /\ UNCHANGED <<envVars, result_out, guidedVars, tests>>
    /\ UNCHANGED <<hexVars, seedVars, deriveVars, mrVars, keyVars>>

\* a worker before its loop: its first candidate and the limit check on it
TH_Init(k) ==
    /\ sp_pc = "parallel"
    /\ th_pc[k] = "init"
    /\ LET first == LimitCheck(sp_start + ULong(2 * k), sp_limit_bit, sp_clamp_on_limit)
       IN  /\ th_attempt_index' = [th_attempt_index EXCEPT ![k] = k]
           /\ th_candidate' = [th_candidate EXCEPT ![k] = first.candidate]
           /\ sp_limit_reached' = (IF first.stop THEN 1 ELSE sp_limit_reached)
           /\ th_pc' = [th_pc EXCEPT ![k] = IF first.stop THEN "done" ELSE "poll"]
    /\ UNCHANGED <<sp_pc, sp_start, sp_max_attempts, sp_hint_seed, sp_limit_bit,
                   sp_clamp_on_limit, sp_used_parallel, sp_attempts_used, sp_ret,
                   sp_total_threads, sp_found, sp_found_prime, sp_found_attempt,
                   sp_candidate, sp_attempt>>
    /\ UNCHANGED <<envVars, result_out, guidedVars, tests>>
    /\ UNCHANGED <<hexVars, seedVars, deriveVars, mrVars, keyVars>>

\* a worker that goes on to its test whatever the flags say
TH_PollIgnoresFlags(k) ==
    /\ sp_pc = "parallel"
    /\ th_pc[k] = "poll"
    /\ th_pc' = [th_pc EXCEPT ![k] =
                    "test"]
    /\ UNCHANGED <<sp_pc, sp_start, sp_max_attempts, sp_hint_seed, sp_limit_bit,
                   sp_clamp_on_limit, sp_used_parallel, sp_attempts_used, sp_ret,
                   sp_total_threads, sp_found, sp_found_prime, sp_found_attempt,
                   sp_limit_reached, sp_candidate, sp_attempt, th_candidate,
                   th_attempt_index>>
    /\ UNCHANGED <<envVars, result_out, guidedVars, tests>>
    /\ UNCHANGED <<hexVars, seedVars, deriveVars, mrVars, keyVars>>

\* a worker at the head of an iteration: the flush and the read of the flags
TH_Poll(k) ==
    /\ sp_pc = "parallel"
    /\ th_pc[k] = "poll"
    /\ th_pc' = [th_pc EXCEPT ![k] =
                    IF sp_found = 1 \/ sp_limit_reached = 1 THEN "done" ELSE "test"]
    /\ UNCHANGED <<sp_pc, sp_start, sp_max_attempts, sp_hint_seed, sp_limit_bit,
                   sp_clamp_on_limit, sp_used_parallel, sp_attempts_used, sp_ret,
                   sp_total_threads, sp_found, sp_found_prime, sp_found_attempt,
                   sp_limit_reached, sp_candidate, sp_attempt, th_candidate,
                   th_attempt_index>>
    /\ UNCHANGED <<envVars, result_out, guidedVars, tests>>
    /\ UNCHANGED <<hexVars, seedVars, deriveVars, mrVars, keyVars>>

\* a worker's test with the slot written without looking at found
TH_TestOverwrites(k) ==
    /\ sp_pc = "parallel"
    /\ th_pc[k] = "test"
    /\ LET current_attempt == th_attempt_index[k]
           hint_value == BitXor(sp_hint_seed, current_attempt)
           candidate == th_candidate[k]
           stride == ULong(2 * sp_total_threads)
           next == LimitCheck(candidate + stride, sp_limit_bit, sp_clamp_on_limit)
           attempt_index == ULong(current_attempt + sp_total_threads)
       IN  /\ tests' = tests \cup {TestRecord(k, current_attempt, candidate, hint_value)}
           /\ IF /\ candidate_is_probable_prime(candidate, CfgSeed, hint_value) = 1
                 /\ Accepts(candidate, too_close_ref, enforce_not_too_close)
              THEN /\ IF TRUE
                      THEN /\ sp_found_prime' = candidate
                           /\ sp_found_attempt' = current_attempt
                           /\ sp_found' = 1
                      ELSE UNCHANGED <<sp_found_prime, sp_found_attempt, sp_found>>
                   /\ th_pc' = [th_pc EXCEPT ![k] = "done"]
                   /\ UNCHANGED <<sp_limit_reached, th_candidate, th_attempt_index>>
              ELSE /\ th_candidate' = [th_candidate EXCEPT ![k] = next.candidate]
                   /\ sp_limit_reached' = (IF next.stop THEN 1 ELSE sp_limit_reached)
                   /\ th_attempt_index' = [th_attempt_index EXCEPT ![k] = attempt_index]
                   /\ th_pc' = [th_pc EXCEPT ![k] =
                                   IF next.stop \/ attempt_index >= sp_max_attempts
                                   THEN "done" ELSE "poll"]
                   /\ UNCHANGED <<sp_found_prime, sp_found_attempt, sp_found>>
    /\ UNCHANGED <<sp_pc, sp_start, sp_max_attempts, sp_hint_seed, sp_limit_bit,
                   sp_clamp_on_limit, sp_used_parallel, sp_attempts_used, sp_ret,
                   sp_total_threads, sp_candidate, sp_attempt>>
    /\ UNCHANGED <<envVars, result_out, guidedVars>>
    /\ UNCHANGED <<hexVars, seedVars, deriveVars, mrVars, keyVars>>

\* a worker's test of its candidate and what follows it: the critical section
\* for an accepted prime, the step to the next candidate otherwise
TH_Test(k) ==
    /\ sp_pc = "parallel"
    /\ th_pc[k] = "test"
    /\ LET current_attempt == th_attempt_index[k]
           hint_value == BitXor(sp_hint_seed, current_attempt)
           candidate == th_candidate[k]
           stride == ULong(2 * sp_total_threads)
           next == LimitCheck(candidate + stride, sp_limit_bit, sp_clamp_on_limit)
           attempt_index == ULong(current_attempt + sp_total_threads)
       IN  /\ tests' = tests \cup {TestRecord(k, current_attempt, candidate, hint_value)}
           /\ IF /\ candidate_is_probable_prime(candidate, CfgSeed, hint_value) = 1
                 /\ Accepts(candidate, too_close_ref, enforce_not_too_close)
              THEN /\ IF sp_found = 0
                      THEN /\ sp_found_prime' = candidate
                           /\ sp_found_attempt' = current_attempt
                           /\ sp_found' = 1
                      ELSE UNCHANGED <<sp_found_prime, sp_found_attempt, sp_found>>
                   /\ th_pc' = [th_pc EXCEPT ![k] = "done"]
                   /\ UNCHANGED <<sp_limit_reached, th_candidate, th_attempt_index>>
              ELSE /\ th_candidate' = [th_candidate EXCEPT ![k] = next.candidate]
                   /\ sp_limit_reached' = (IF next.stop THEN 1 ELSE sp_limit_reached)
                   /\ th_attempt_index' = [th_attempt_index EXCEPT ![k] = attempt_index]
                   /\ th_pc' = [th_pc EXCEPT ![k] =
                                   IF next.stop \/ attempt_index >= sp_max_attempts
                                   THEN "done" ELSE "poll"]
                   /\ UNCHANGED <<sp_found_prime, sp_found_attempt, sp_found>>
    /\ UNCHANGED <<sp_pc, sp_start, sp_max_attempts, sp_hint_seed, sp_limit_bit,
                   sp_clamp_on_limit, sp_used_parallel, sp_attempts_used, sp_ret,
                   sp_total_threads, sp_candidate, sp_attempt>>
    /\ UNCHANGED <<envVars, result_out, guidedVars>>
    /\ UNCHANGED <<hexVars, seedVars, deriveVars, mrVars, keyVars>>

\* a join that looks at limit_reached before found
SP_JoinLimitFirst ==
    /\ sp_pc = "parallel"
    /\ \A k \in Threads : th_pc[k] \in {"done", "off"}
    /\ IF sp_found = 1 /\ sp_limit_reached = 0
       THEN /\ sp_used_parallel' = 1
            /\ sp_attempts_used' = sp_found_attempt
            /\ result_out' = sp_found_prime
            /\ sp_ret' = 1
            /\ sp_pc' = "returned"
            /\ UNCHANGED <<sp_candidate, sp_attempt>>
       ELSE IF sp_limit_reached = 1
       THEN /\ sp_ret' = 0
            /\ sp_pc' = "returned"
            /\ UNCHANGED <<sp_used_parallel, sp_attempts_used, result_out, sp_candidate,
                           sp_attempt>>
       ELSE /\ sp_pc' = "sequential"
            /\ sp_candidate' = sp_start
            /\ sp_attempt' = 0
            /\ UNCHANGED <<sp_used_parallel, sp_attempts_used, result_out, sp_ret>>
    /\ UNCHANGED <<sp_start, sp_max_attempts, sp_hint_seed, sp_limit_bit, sp_clamp_on_limit,
                   sp_total_threads, sp_found, sp_found_prime, sp_found_attempt,
                   sp_limit_reached, th_pc, th_candidate, th_attempt_index>>
    /\ UNCHANGED <<envVars, guidedVars, tests>>
    /\ UNCHANGED <<hexVars, seedVars, deriveVars, mrVars, keyVars>>

\* after the parallel region: the find, the limit, or on to the sequential loop
SP_Join ==
    /\ sp_pc = "parallel"
    /\ \A k \in Threads : th_pc[k] \in {"done", "off"}
    /\ IF sp_found = 1
       THEN /\ sp_used_parallel' = 1
            /\ sp_attempts_used' = sp_found_attempt
            /\ result_out' = sp_found_prime
            /\ sp_ret' = 1
            /\ sp_pc' = "returned"
            /\ UNCHANGED <<sp_candidate, sp_attempt>>
       ELSE IF sp_limit_reached = 1
       THEN /\ sp_ret' = 0
            /\ sp_pc' = "returned"
            /\ UNCHANGED <<sp_used_parallel, sp_attempts_used, result_out, sp_candidate,
                           sp_attempt>>
       ELSE /\ sp_pc' = "sequential"
            /\ sp_candidate' = sp_start
            /\ sp_attempt' = 0
            /\ UNCHANGED <<sp_used_parallel, sp_attempts_used, result_out, sp_ret>>
    /\ UNCHANGED <<sp_start, sp_max_attempts, sp_hint_seed, sp_limit_bit, sp_clamp_on_limit,
                   sp_total_threads, sp_found, sp_found_prime, sp_found_attempt,
                   sp_limit_reached, th_pc, th_candidate, th_attempt_index>>
    /\ UNCHANGED <<envVars, guidedVars, tests>>
    /\ UNCHANGED <<hexVars, seedVars, deriveVars, mrVars, keyVars>>

\* a sequential loop that reports the number of tests made, not the index
SP_SeqStepCountsTests ==
    /\ sp_pc = "sequential"
    /\ sp_attempt < sp_max_attempts
    /\ LET hint_value == BitXor(sp_hint_seed, sp_attempt)
           next == LimitCheck(sp_candidate + 2, sp_limit_bit, sp_clamp_on_limit)
       IN  /\ tests' = tests \cup {TestRecord(-1, sp_attempt, sp_candidate, hint_value)}
           /\ IF /\ candidate_is_probable_prime(sp_candidate, CfgSeed, hint_value) = 1
                 /\ Accepts(sp_candidate, too_close_ref, enforce_not_too_close)
              THEN /\ result_out' = sp_candidate
                   /\ sp_attempts_used' = sp_attempt + 1
                   /\ sp_ret' = 1
                   /\ sp_pc' = "returned"
                   /\ UNCHANGED <<sp_candidate, sp_attempt>>
              ELSE /\ sp_candidate' = next.candidate
                   /\ sp_attempt' = (IF next.stop THEN sp_attempt ELSE sp_attempt + 1)
                   /\ IF next.stop \/ sp_attempt + 1 >= sp_max_attempts
                      THEN sp_ret' = 0 /\ sp_pc' = "returned"
                      ELSE UNCHANGED <<sp_ret, sp_pc>>
                   /\ UNCHANGED <<result_out, sp_attempts_used>>
    /\ UNCHANGED <<sp_start, sp_max_attempts, sp_hint_seed, sp_limit_bit, sp_clamp_on_limit,
                   sp_used_parallel, sp_total_threads, sp_found, sp_found_prime,
                   sp_found_attempt, sp_limit_reached, th_pc, th_candidate,
                   th_attempt_index>>
    /\ UNCHANGED <<envVars, guidedVars>>
    /\ UNCHANGED <<hexVars, seedVars, deriveVars, mrVars, keyVars>>

\* one iteration of the sequential loop, and the loop's exit after it
SP_SeqStep ==
    /\ sp_pc = "sequential"
    /\ sp_attempt < sp_max_attempts
    /\ LET hint_value == BitXor(sp_hint_seed, sp_attempt)
           next == LimitCheck(sp_candidate + 2, sp_limit_bit, sp_clamp_on_limit)
       IN  /\ tests' = tests \cup {TestRecord(-1, sp_attempt, sp_candidate, hint_value)}
           /\ IF /\ candidate_is_probable_prime(sp_candidate, CfgSeed, hint_value) = 1
                 /\ Accepts(sp_candidate, too_close_ref, enforce_not_too_close)
              THEN /\ result_out' = sp_candidate
                   /\ sp_attempts_used' = sp_attempt
                   /\ sp_ret' = 1
                   /\ sp_pc' = "returned"
                   /\ UNCHANGED <<sp_candidate, sp_attempt>>
              ELSE /\ sp_candidate' = next.candidate
                   /\ sp_attempt' = (IF next.stop THEN sp_attempt ELSE sp_attempt + 1)
                   /\ IF next.stop \/ sp_attempt + 1 >= sp_max_attempts
                      THEN sp_ret' = 0 /\ sp_pc' = "returned"
                      ELSE UNCHANGED <<sp_ret, sp_pc>>
                   /\ UNCHANGED <<result_out, sp_attempts_used>>
    /\ UNCHANGED <<sp_start, sp_max_attempts, sp_hint_seed, sp_limit_bit, sp_clamp_on_limit,
                   sp_used_parallel, sp_total_threads, sp_found, sp_found_prime,
                   sp_found_attempt, sp_limit_reached, th_pc, th_candidate,
                   th_attempt_index>>
    /\ UNCHANGED <<envVars, guidedVars>>
    /\ UNCHANGED <<hexVars, seedVars, deriveVars, mrVars, keyVars>>

NextSearch ==
    \/ GP_Entry
    \/ GP_Segment
    \/ GP_AfterSegment
    \/ SP_Entry
    \/ \E k \in Threads : TH_Init(k)
    \/ \E k \in Threads : TH_Poll(k)
    \/ \E k \in Threads : TH_Test(k)
    \/ SP_Join
    \/ SP_SeqStep

SpecSearch == InitSearch /\ [][NextSearch]_vars

(***************************************************************************)
(* Claims about the candidate search                                       *)
(***************************************************************************)
\* the fold as the claim words it: the residue modulo 2^WidthBits, lifted into
\* the upper half of the width and made odd
FoldedStart(e) ==
    LET m == e % Modulus
        lifted == IF m < Modulus \div 2 THEN m + Modulus \div 2 ELSE m
    IN  IF lifted % 2 = 0 THEN lifted + 1 ELSE lifted

\* C1: guided_prime_search folds any estimated_start into base_start =
\* (estimated_start mod 2^WidthBits) with the top bit and bit 0 forced to 1, and
\* whenever it reports found, on the sequential or the parallel path, the
\* returned prime is odd, lies in [2^(WidthBits-1), 2^WidthBits), and is a
\* candidate for which candidate_is_probable_prime returned true.
C1_GuidedResult ==
    /\ gp_pc \in {"loop", "call", "returned"} =>
           gp_base_start = FoldedStart(gp_estimated_start)
    /\ (gp_pc = "returned" /\ gp_found = 1) =>
           /\ result_out % 2 = 1
           /\ Modulus \div 2 <= result_out
           /\ result_out < Modulus
           /\ \E t \in tests : t.c = result_out /\ t.prime = 1

\* a find on the parallel path, from an even estimated start at or above the
\* modulus, of a prime other than the folded start
C1_Witness ==
    /\ gp_pc = "returned"
    /\ gp_found = 1
    /\ gp_used_parallel = 1
    /\ gp_estimated_start >= Modulus
    /\ gp_estimated_start % 2 = 0
    /\ result_out # gp_base_start
    /\ result_out # 0

\* floor(c / 2^(WidthBits - CloseBits)) = floor(R / 2^(WidthBits - CloseBits))
TopBitsEqual(c, R) ==
    LET unit == Pow2(WidthBits - CloseBits)
    IN  \E q \in 0..Pow2(CloseBits + 1) :
            /\ q * unit <= c /\ c < (q + 1) * unit
            /\ q * unit <= R /\ R < (q + 1) * unit

GuardSet == enforce_not_too_close = 1 /\ too_close_ref # 0

\* the candidate after c, by a step of s: c + s, or its image under the limit policy
SteppedFrom(c, s) ==
    {c + s, SetBit(ClrBit(c + s, WidthBits), WidthBits - 1)}

\* a return of a find never hands out a candidate matching the reference
C5_ReturnStep ==
    /\ (sp_pc # "returned" /\ sp_pc' = "returned" /\ sp_ret' = 1 /\ GuardSet) =>
           ~TopBitsEqual(result_out', too_close_ref)
    /\ (gp_pc # "returned" /\ gp_pc' = "returned" /\ gp_found' = 1 /\ GuardSet) =>
           ~TopBitsEqual(result_out', too_close_ref)

\* the sequential loop on a matching probable prime: nothing is returned, the
\* candidate moves on, and the attempt is spent (or the limit ends the search)
C5_SequentialSkip ==
    (/\ sp_pc = "sequential"
     /\ tests' # tests
     /\ GuardSet
     /\ candidate_is_probable_prime(sp_candidate, CfgSeed,
                                    BitXor(sp_hint_seed, sp_attempt)) = 1
     /\ TopBitsEqual(sp_candidate, too_close_ref)) =>
        /\ result_out' = result_out
        /\ sp_ret' # 1
        /\ sp_candidate' \in SteppedFrom(sp_candidate, 2)
        /\ \/ sp_attempt' = sp_attempt + 1
           \/ sp_pc' = "returned" /\ TstBit(sp_candidate', sp_limit_bit)

\* a worker on a matching probable prime: nothing is recorded as found, the
\* worker's candidate and attempt index move on by its stride
C5_ParallelSkip ==
    \A k \in Threads :
        (/\ sp_pc = "parallel"
         /\ th_pc[k] = "test"
         /\ th_pc'[k] # "test"
         /\ GuardSet
         /\ candidate_is_probable_prime(th_candidate[k], CfgSeed,
                                        BitXor(sp_hint_seed, th_attempt_index[k])) = 1
         /\ TopBitsEqual(th_candidate[k], too_close_ref)) =>
            /\ sp_found' = sp_found
            /\ sp_found_prime' = sp_found_prime
            /\ sp_found_attempt' = sp_found_attempt
            /\ th_candidate'[k] \in SteppedFrom(th_candidate[k], 2 * sp_total_threads)
            /\ th_attempt_index'[k] = th_attempt_index[k] + sp_total_threads

\* C5: when enforce_not_too_close is set and a reference prime R is supplied,
\* neither path of search_prime_candidates, nor guided_prime_search, returns a
\* candidate c with floor(c / 2^(WidthBits-CloseBits)) = floor(R / 2^(WidthBits-CloseBits));
\* a probable prime that matches is skipped and the search advances to the
\* next candidate, consuming an attempt.
C5_NeverTooClose ==
    [][C5_ReturnStep /\ C5_SequentialSkip /\ C5_ParallelSkip]_vars

\* a find returned under the guard after a matching probable prime below it
\* was tested and passed over
C5_Witness ==
    /\ gp_pc = "returned"
    /\ gp_found = 1
    /\ GuardSet
    /\ \E t \in tests :
           /\ t.prime = 1
           /\ TopBitsEqual(t.c, too_close_ref)
           /\ t.c < result_out

(***************************************************************************)
(* z_generate_seed and derive_seed together: the working buffers           *)
(***************************************************************************)
InitBuffers == InitSeed \/ InitDerive

NextBuffers == NextSeed \/ NextDerive

SpecBuffers == InitBuffers /\ [][NextBuffers]_vars

\* every byte is zero
AllZero(buf) == \A k \in 1..Len(buf) : buf[k] = Zero

\* every byte is what the memory held before the call
Untouched(buf) == \E g \in {Garbage, Lit(9)} : \A k \in 1..Len(buf) : buf[k] = g

\* z_generate_seed got as far as filling mix_input
SaltWritten == zs_seed_ptr /\ zs_fd = "closed" /\ zs_bytes_read = SEED_SIZE

\* C11: on every exit path of z_generate_seed and derive_seed, success and
\* every error return, each intermediate buffer the function has written
\* (mix_input and digest; context and digest) holds zeros when the function
\* returns, and a buffer that is not zero was never written.
C11_BuffersZeroed ==
    /\ Returned =>
         /\ IF SaltWritten THEN AllZero(zs_mix_input) ELSE Untouched(zs_mix_input)
         /\ \A k \in 1..Len(zs_digest) : zs_digest[k] \in {Zero, Garbage}
         /\ (Count(zs_trace, "hash") = 0) => Untouched(zs_digest)
         /\ \A k \in 1..zs_digest_len : zs_digest[k] = Zero
    /\ ds_pc = "done" => (AllZero(ds_context) /\ AllZero(ds_digest))
    /\ ds_pc = "returned_early" => (Untouched(ds_context) /\ Untouched(ds_digest))

\* an error return of z_generate_seed after the digest was written
C11_Witness ==
    /\ zs_pc = "returned"
    /\ zs_rc = ZSEED_ERR_CRYPTO_FAILURE
    /\ zs_digest_len = SHA256_DIGEST_LENGTH
    /\ zs_ok = 0
    /\ AllZero(zs_mix_input)
    /\ \A k \in 1..SHA256_DIGEST_LENGTH : zs_digest[k] = Zero

(***************************************************************************)
(* z5d_nth_prime, seed_to_2048bit, generate_rsa_keypair                    *)
(***************************************************************************)
\* derive_seed as one function: the loop of DS_Chunk run to its end
RECURSIVE DeriveLoop(_, _, _, _, _, _)
DeriveLoop(output, digest, produced, output_size, context, tag_len) ==
    IF produced >= output_size THEN output
    ELSE LET chunk == Min(SHA256_DIGEST_LENGTH, output_size - produced)
             copied == [k \in 1..output_size |->
                          IF k > produced /\ k <= produced + chunk
                          THEN digest[k - produced] ELSE output[k]]
         IN  DeriveLoop(copied,
                        IF produced + chunk < output_size
                        THEN NextDigest(digest, context, tag_len) ELSE digest,
                        produced + chunk, output_size, context, tag_len)

\* derive_seed(base_seed, tag, output, output_size) for non-NULL arguments
derive_seed(base_seed, tag, output_size) ==
    LET context == BuildContext(tag, base_seed)
        tag_len == TagLen(tag)
    IN  DeriveLoop([k \in 1..output_size |-> Garbage],
                   SHA256(Take(context, tag_len + SEED_SIZE)),
                   0, output_size, context, tag_len)

\* sizeof(expanded), sizeof(prime_seed): 256 bytes, the modulus width, in the
\* source; the largest derive_seed output of the model here
ExpandedSize == MaxOutputSize

\* the tags "p", "q", "2048bit" and "prime_p%d_q%d", each by its leading bytes
TagP == <<Lit(112)>>

TagQ == <<Lit(113)>>

Tag2048bit == <<Lit(50), Lit(48), Lit(52)>>

TagPrime == <<Lit(112), Lit(114), Lit(105)>>

\* MAX_LOCAL_ATTEMPTS (5000) and MAX_PRIME_ATTEMPTS (10000), scaled
MAX_LOCAL_ATTEMPTS == MaxAttempts \div 2

MAX_PRIME_ATTEMPTS == MaxAttempts

\* mpz_import of a buffer of digest bytes: SHA-256 is external, so the integer
\* is any of these values of the width
ImportedValues == {0, Modulus - 4, Modulus \div 2 + Modulus \div 4 - 5}

\* mpz_import; mpz_setbit(.., 2047); mpz_setbit(.., 0)
WidthCandidates == {SetBit(SetBit(x, WidthBits - 1), 0) : x \in ImportedValues}

\* the values k takes, and the estimates the mpfr formula may yield for them
NthK == {3, Modulus + 2}

NthEstimates == {2, Modulus - 6, Modulus + Modulus \div 4 - 2}

\* the seeds cfg->seed takes here
CfgSeeds == {[k \in 1..SEED_SIZE |-> Lit(112)]}

\* omp_get_max_threads() in these runs: one thread (sequential) or a team of two
KeyThreads == {1, 2}

\* what the searches start from when z5d_nth_prime or generate_rsa_keypair runs
KeyEnvironment ==
    /\ HexIdle
    /\ SeedIdle
    /\ DeriveIdle
    /\ MRIdle
    /\ omp_max_threads \in KeyThreads
    /\ g_debug \in {0, 1}
    /\ g_quiet \in {0, 1}
    /\ cfg_seed \in CfgSeeds
    /\ result_out = 0
    /\ gp_pc = "idle"
    /\ gp_estimated_start = 0
    /\ gp_max_attempts = 0
    /\ gp_hint_seed = 0
    /\ gp_base_start = 0
    /\ gp_current_start = 0
    /\ gp_remaining = 0
    /\ gp_offset = 0
    /\ gp_segment = 0
    /\ gp_found = 0
    /\ gp_used_parallel = 0
    /\ gp_attempts_used = 0
    /\ sp_pc = "idle"
    /\ sp_start = 0
    /\ sp_max_attempts = 0
    /\ sp_hint_seed = 0
    /\ sp_limit_bit = 0
    /\ sp_clamp_on_limit = 0
    /\ sp_used_parallel = 0
    /\ sp_attempts_used = 0
    /\ sp_ret = 0
    /\ sp_total_threads = 0
    /\ sp_found = 0
    /\ sp_found_prime = 0
    /\ sp_found_attempt = 0
    /\ sp_limit_reached = 0
    /\ sp_candidate = 0
    /\ sp_attempt = 0
    /\ th_pc = [k \in Threads |-> "off"]
    /\ th_candidate = [k \in Threads |-> 0]
    /\ th_attempt_index = [k \in Threads |-> 0]
    /\ tests = {}
    /\ np_prime_seed = [k \in 1..ExpandedSize |-> Garbage]
    /\ np_ret = 0
    /\ np_path = "none"
    /\ kg_seed_p = [k \in 1..SEED_SIZE |-> Garbage]
    /\ kg_seed_q = [k \in 1..SEED_SIZE |-> Garbage]
    /\ kg_expanded = [k \in 1..ExpandedSize |-> Garbage]
    /\ kg_x_p = 0
    /\ kg_x_q = 0
    /\ kg_p = 0
    /\ kg_q = 0
    /\ kg_retry_count = 0
    /\ kg_rsa = "none"

\* a call of z5d_nth_prime on its own
InitNthPrime ==
    /\ caller = "nth_prime"
    /\ too_close_ref \in {0} \cup RefPrimes
    /\ enforce_not_too_close \in {0, 1}
    /\ np_pc = "entry"
    /\ np_k \in NthK
    /\ np_k_ge_min \in BOOLEAN
    /\ kg_pc = "idle"

\* a call of generate_rsa_keypair
InitKeygen ==
    /\ caller = "keygen"
    /\ too_close_ref = 0
    /\ enforce_not_too_close = 0
    /\ np_pc = "idle"
    /\ np_k = 0
    /\ np_k_ge_min = FALSE
    /\ kg_pc = "entry"

InitKey == KeyEnvironment /\ (InitNthPrime \/ InitKeygen)

gpArgs == <<gp_pc, gp_estimated_start, gp_max_attempts, gp_hint_seed>>

gpLocals == <<gp_base_start, gp_current_start, gp_remaining, gp_offset, gp_segment,
              gp_found, gp_used_parallel, gp_attempts_used>>

spArgs == <<sp_pc, sp_start, sp_max_attempts, sp_hint_seed, sp_limit_bit, sp_clamp_on_limit>>

spLocals == <<sp_used_parallel, sp_attempts_used, sp_ret, sp_total_threads, sp_found,
              sp_found_prime, sp_found_attempt, sp_limit_reached, sp_candidate,
              sp_attempt, th_pc, th_candidate, th_attempt_index>>

otherVars == <<hexVars, seedVars, deriveVars, mrVars>>

\* z5d_nth_prime up to its first search: the guided search from the estimate
\* when k is large enough, the fallback otherwise
NP_Entry ==
    /\ np_pc = "entry"
    /\ np_path' = "none"
    /\ IF np_k_ge_min
       THEN \E z5d_estimate \in NthEstimates :
              LET estimated_prime == IF z5d_estimate < np_k THEN np_k * 10 ELSE z5d_estimate
                  prime_out == IF estimated_prime % 2 = 0
                               THEN estimated_prime + 1 ELSE estimated_prime
              IN  /\ result_out' = prime_out
                  /\ gp_estimated_start' = prime_out
                  /\ gp_max_attempts' = MAX_LOCAL_ATTEMPTS
                  /\ gp_hint_seed' = ULong(np_k)
                  /\ gp_pc' = "entry"
                  /\ np_pc' = "guided_call"
       ELSE /\ np_pc' = "fallback"
            /\ UNCHANGED <<result_out, gpArgs>>
    /\ UNCHANGED <<envVars, gpLocals, searchCallVars, tests>>
    /\ UNCHANGED <<g_debug, g_quiet, cfg_seed, np_k, np_k_ge_min, np_prime_seed, np_ret,
                   keygenVars>>
    /\ UNCHANGED otherVars

\* after guided_prime_search: return 1 on a find, else go on to the fallback
NP_AfterGuided ==
    /\ np_pc = "guided_call"
    /\ gp_pc = "returned"
    /\ gp_pc' = "idle"
    /\ IF gp_found = 1
       THEN np_ret' = 1 /\ np_path' = "guided" /\ np_pc' = "returned"
       ELSE np_pc' = "fallback" /\ UNCHANGED <<np_ret, np_path>>
    /\ UNCHANGED <<envVars, result_out, gp_estimated_start, gp_max_attempts, gp_hint_seed,
                   gpLocals, searchCallVars, tests>>
    /\ UNCHANGED <<g_debug, g_quiet, cfg_seed, np_k, np_k_ge_min, np_prime_seed, keygenVars>>
    /\ UNCHANGED otherVars

\* the fallback up to its search: prime_seed derived, imported, top and low bit set
NP_Fallback ==
    /\ np_pc = "fallback"
    /\ np_prime_seed' = derive_seed(cfg_seed, TagPrime, ExpandedSize)
    /\ \E candidate \in WidthCandidates : sp_start' = candidate
    /\ sp_max_attempts' = MAX_PRIME_ATTEMPTS
    /\ sp_hint_seed' = 0
    /\ sp_limit_bit' = WidthBits
    /\ sp_clamp_on_limit' = 1
    /\ sp_pc' = "entry"
    /\ np_pc' = "fallback_call"
    /\ UNCHANGED <<envVars, result_out, guidedVars, spLocals, tests>>
    /\ UNCHANGED <<g_debug, g_quiet, cfg_seed, np_k, np_k_ge_min, np_ret, np_path,
                   keygenVars>>
    /\ UNCHANGED otherVars

\* after the fallback's search_prime_candidates:
\* if (found_random && g_debug && !g_quiet) return 1; ... return 0;
NP_AfterFallback ==
    /\ np_pc = "fallback_call"
    /\ sp_pc = "returned"
    /\ gp_pc # "call"
    /\ sp_pc' = "idle"
    /\ np_ret' = (IF sp_ret = 1 /\ g_debug = 1 /\ g_quiet = 0 THEN 1 ELSE 0)
    /\ np_path' = "fallback"
    /\ np_pc' = "returned"
    /\ UNCHANGED <<envVars, result_out, guidedVars, sp_start, sp_max_attempts, sp_hint_seed,
                   sp_limit_bit, sp_clamp_on_limit, spLocals, tests>>
    /\ UNCHANGED <<g_debug, g_quiet, cfg_seed, np_k, np_k_ge_min, np_prime_seed, keygenVars>>
    /\ UNCHANGED otherVars

MAX_RETRIES == 10

\* generate_rsa_keypair: derive_seed(cfg->seed, "p", seed_p, ..); the same for "q"
KG_Derive ==
    /\ kg_pc = "entry"
    /\ kg_seed_p' = derive_seed(cfg_seed, TagP, SEED_SIZE)
    /\ kg_seed_q' = derive_seed(cfg_seed, TagQ, SEED_SIZE)
    /\ kg_pc' = "x_p"
    /\ UNCHANGED <<kg_expanded, kg_x_p, kg_x_q, kg_p, kg_q, kg_retry_count, kg_rsa>>
    /\ UNCHANGED <<g_debug, g_quiet, cfg_seed, nthVars, searchVars>>
    /\ UNCHANGED otherVars

\* seed_to_2048bit(seed_p, x_p), then seed_to_2048bit(seed_q, x_q): expanded is
\* derived, imported, the top and the low bit are set, and the function returns
KG_SeedTo2048 ==
    /\ kg_pc \in {"x_p", "x_q"}
    /\ kg_expanded' = derive_seed(IF kg_pc = "x_p" THEN kg_seed_p ELSE kg_seed_q,
                                  Tag2048bit, ExpandedSize)
    /\ \E result \in WidthCandidates :
         IF kg_pc = "x_p"
         THEN kg_x_p' = result /\ kg_pc' = "x_q" /\ UNCHANGED kg_x_q
         ELSE kg_x_q' = result /\ kg_pc' = "counts" /\ UNCHANGED kg_x_p
    /\ UNCHANGED <<kg_seed_p, kg_seed_q, kg_p, kg_q, kg_retry_count, kg_rsa>>
    /\ UNCHANGED <<g_debug, g_quiet, cfg_seed, nthVars, searchVars>>
    /\ UNCHANGED otherVars

\* z5d_prime_count for both, the bumps added, and the call
\* z5d_nth_prime("p", k_base_p, p, cfg, NULL, 0)
KG_CallP ==
    /\ kg_pc = "counts"
    /\ np_k' \in NthK
    /\ np_k_ge_min' \in BOOLEAN
    /\ too_close_ref' = 0
    /\ enforce_not_too_close' = 0
    /\ result_out' = 0
    /\ np_pc' = "entry"
    /\ kg_pc' = "p_call"
    /\ UNCHANGED <<kg_seed_p, kg_seed_q, kg_expanded, kg_x_p, kg_x_q, kg_p, kg_q,
                   kg_retry_count, kg_rsa>>
    /\ UNCHANGED <<g_debug, g_quiet, cfg_seed, np_prime_seed, np_ret, np_path>>
    /\ UNCHANGED <<caller, omp_max_threads, guidedVars, searchCallVars, tests>>
    /\ UNCHANGED otherVars

\* the frames of a finished z5d_nth_prime call are gone when the next call starts
NewSearchFrames ==
    /\ gp_pc' = "idle"
    /\ gp_estimated_start' = 0
    /\ gp_max_attempts' = 0
    /\ gp_hint_seed' = 0
    /\ gp_base_start' = 0
    /\ gp_current_start' = 0
    /\ gp_remaining' = 0
    /\ gp_offset' = 0
    /\ gp_segment' = 0
    /\ gp_found' = 0
    /\ gp_used_parallel' = 0
    /\ gp_attempts_used' = 0
    /\ sp_pc' = "idle"
    /\ sp_start' = 0
    /\ sp_max_attempts' = 0
    /\ sp_hint_seed' = 0
    /\ sp_limit_bit' = 0
    /\ sp_clamp_on_limit' = 0
    /\ sp_used_parallel' = 0
    /\ sp_attempts_used' = 0
    /\ sp_ret' = 0
    /\ sp_total_threads' = 0
    /\ sp_found' = 0
    /\ sp_found_prime' = 0
    /\ sp_found_attempt' = 0
    /\ sp_limit_reached' = 0
    /\ sp_candidate' = 0
    /\ sp_attempt' = 0
    /\ th_pc' = [k \in Threads |-> "off"]
    /\ th_candidate' = [k \in Threads |-> 0]
    /\ th_attempt_index' = [k \in Threads |-> 0]
    /\ tests' = {}

\* after p: return NULL on failure, else z5d_nth_prime("q", k_base_q, q, cfg, &p, 1)
KG_AfterP ==
    /\ kg_pc = "p_call"
    /\ np_pc = "returned"
    /\ IF np_ret = 0
       THEN /\ kg_rsa' = "NULL"
            /\ kg_pc' = "returned"
            /\ np_pc' = "idle"
            /\ UNCHANGED <<kg_p, np_k, np_k_ge_min, too_close_ref, enforce_not_too_close,
                           result_out, guidedVars, searchCallVars, tests>>
       ELSE /\ kg_p' = result_out
            /\ np_k' \in NthK
            /\ np_k_ge_min' \in BOOLEAN
            /\ too_close_ref' = result_out
            /\ enforce_not_too_close' = 1
            /\ result_out' = 0
            /\ np_pc' = "entry"
            /\ kg_pc' = "q_call"
            /\ NewSearchFrames
            /\ UNCHANGED kg_rsa
    /\ UNCHANGED <<kg_seed_p, kg_seed_q, kg_expanded, kg_x_p, kg_x_q, kg_q, kg_retry_count>>
    /\ UNCHANGED <<g_debug, g_quiet, cfg_seed, np_prime_seed, np_ret, np_path>>
    /\ UNCHANGED <<caller, omp_max_threads>>
    /\ UNCHANGED otherVars

\* after q, first call or retry: return NULL on failure; while p = q and retries
\* are left, z5d_nth_prime("q", temp_k_base_q, q, &temp_cfg, &p, 1) again;
\* return NULL when p = q still; else go on to build the key
KG_AfterQ ==
    /\ kg_pc \in {"q_call", "retry_call"}
    /\ np_pc = "returned"
    /\ LET retry_count == IF kg_pc = "retry_call" /\ np_ret # 0
                          THEN kg_retry_count + 1 ELSE kg_retry_count
       IN  /\ kg_retry_count' = retry_count
           /\ IF np_ret = 0
              THEN /\ kg_rsa' = "NULL"
                   /\ kg_pc' = "returned"
                   /\ np_pc' = "idle"
                   /\ UNCHANGED <<kg_q, np_k, np_k_ge_min, guidedVars, searchCallVars,
                                  tests>>
              ELSE /\ kg_q' = result_out
                   /\ IF kg_p = result_out /\ retry_count < MAX_RETRIES
                      THEN /\ np_k' \in NthK
                           /\ np_k_ge_min' \in BOOLEAN
                           /\ np_pc' = "entry"
                           /\ kg_pc' = "retry_call"
                           /\ NewSearchFrames
                           /\ UNCHANGED kg_rsa
                      ELSE /\ np_pc' = "idle"
                           /\ UNCHANGED <<np_k, np_k_ge_min, guidedVars, searchCallVars,
                                          tests>>
                           /\ IF kg_p = result_out
                              THEN kg_rsa' = "NULL" /\ kg_pc' = "returned"
                              ELSE kg_pc' = "build" /\ UNCHANGED kg_rsa
    /\ UNCHANGED <<kg_seed_p, kg_seed_q, kg_expanded, kg_x_p, kg_x_q, kg_p>>
    /\ UNCHANGED <<g_debug, g_quiet, cfg_seed, np_prime_seed, np_ret, np_path>>
    /\ UNCHANGED <<envVars, result_out>>
    /\ UNCHANGED otherVars

\* RSA_new, the BIGNUM conversions and the key arithmetic: NULL when RSA_new
\* fails, the unfinished RSA when a later step fails, the finished RSA otherwise
KG_Build ==
    /\ kg_pc = "build"
    /\ kg_rsa' \in {"NULL", "partial", "complete"}
    /\ kg_pc' = "returned"
    /\ UNCHANGED <<kg_seed_p, kg_seed_q, kg_expanded, kg_x_p, kg_x_q, kg_p, kg_q,
                   kg_retry_count>>
    /\ UNCHANGED <<g_debug, g_quiet, cfg_seed, nthVars, searchVars>>
    /\ UNCHANGED otherVars

NextKey ==
    \/ KG_Derive
    \/ KG_SeedTo2048
    \/ KG_CallP
    \/ KG_AfterP
    \/ KG_AfterQ
    \/ KG_Build
    \/ NP_Entry
    \/ NP_AfterGuided
    \/ NP_Fallback
    \/ NP_AfterFallback
    \/ GP_Entry
    \/ GP_Segment
    \/ GP_AfterSegment
    \/ SP_Entry
    \/ \E k \in Threads : TH_Init(k)
    \/ \E k \in Threads : TH_Poll(k)
    \/ \E k \in Threads : TH_Test(k)
    \/ SP_Join
    \/ SP_SeqStep

SpecKey == InitKey /\ [][NextKey]_vars

\* C12: every buffer that receives derive_seed output is zeroed before the
\* function that owns it returns: expanded when seed_to_2048bit has returned,
\* seed_p and seed_q when generate_rsa_keypair has returned (with a key or with
\* NULL), prime_seed when z5d_nth_prime has returned from its fallback
C12_DerivedWiped ==
    /\ kg_pc \notin {"idle", "entry", "x_p"} => AllZero(kg_expanded)
    /\ kg_pc = "returned" => AllZero(kg_seed_p) /\ AllZero(kg_seed_q)
    /\ np_pc = "returned" /\ np_path = "fallback" => AllZero(np_prime_seed)

\* C13: the search normalises its start to an odd number before testing: every
\* candidate tested is odd, and a search without a bit limit from an even start
\* whose successor is prime (as 100 before 101), with a budget of two attempts
\* or more, returns found with that prime and attempts_used 0 or 1
C13_StartNormalisedOdd ==
    /\ \A t \in tests : t.c % 2 = 1
    /\ (/\ caller = "direct"
        /\ sp_pc = "returned"
        /\ sp_limit_bit = 0
        /\ enforce_not_too_close = 0
        /\ sp_start % 2 = 0
        /\ IsPrime(sp_start + 1)
        /\ sp_max_attempts >= 2)
       => /\ sp_ret = 1
          /\ result_out = sp_start + 1
          /\ sp_attempts_used \in {0, 1}

\* the tests the running call of search_prime_candidates has made
CallTests == {t \in tests : t.off = gp_offset}

AcceptedTest(t) == t.prime = 1 /\ Accepts(t.c, too_close_ref, enforce_not_too_close)

SearchRunning == sp_pc \in {"entry", "parallel", "sequential"}

\* C14: search_prime_candidates reports exhaustion as a normal outcome: with
\* max_attempts = 0 it returns 0 in its first step without a test; a call that
\* returns without an accepted test returns 0; a return of 0 leaves attempts_used
\* at max_attempts and used_parallel at 0, and result_out is changed by no step
\* of a call other than the one that returns 1
C14_Step ==
    /\ (sp_pc = "entry" /\ sp_max_attempts = 0)
         => sp_pc' = "returned" /\ sp_ret' = 0 /\ tests' = tests
    /\ (SearchRunning /\ sp_pc' = "returned" /\ ~(\E t \in CallTests' : AcceptedTest(t)))
         => sp_ret' = 0
    /\ (SearchRunning /\ sp_pc' = "returned" /\ sp_ret' = 0)
         => /\ sp_attempts_used' = sp_max_attempts
            /\ sp_used_parallel' = 0
            /\ result_out' = result_out
    /\ (SearchRunning /\ result_out' # result_out) => sp_pc' = "returned" /\ sp_ret' = 1

C14_Exhaustion == [][C14_Step]_vars

\* a direct call that used its whole budget of MaxAttempts tests, after a
\* parallel region that found nothing, and came back with 0
C14_Witness ==
    /\ caller = "direct"
    /\ sp_pc = "returned"
    /\ sp_ret = 0
    /\ sp_max_attempts = MaxAttempts
    /\ sp_attempts_used = MaxAttempts
    /\ sp_total_threads > 1
    /\ Cardinality({t \in tests : t.by = -1}) = MaxAttempts

\* calls of guided_prime_search for the termination check: sequential or with a
\* team of two, the guard requested (a NULL reference leaves it off), and a
\* budget of none, one or MaxAttempts attempts
InitFairGuided ==
    /\ InitSearch
    /\ caller = "guided"
    /\ omp_max_threads \in {1, 2}
    /\ enforce_not_too_close = 1
    /\ gp_max_attempts \in {0, 1, MaxAttempts}

\* the guided search under weak fairness: the main thread and every worker of
\* the team keep running, so a call that can take a step takes one
FairSearch == InitFairGuided /\ [][NextSearch]_vars /\ WF_vars(NextSearch)

\* one step of guided_prime_search: a segment is at least one attempt and at
\* most the remaining budget, and an iteration that found nothing has taken
\* its segment off the remaining budget
C15_Step ==
    /\ (gp_pc = "loop" /\ gp_pc' = "call")
         => gp_segment' >= 1 /\ gp_segment' <= gp_remaining
    /\ (gp_pc = "call" /\ gp_pc' # "call" /\ gp_found' = 0)
         => gp_remaining' < gp_remaining /\ gp_remaining' >= 0

\* no candidate of a guided search comes from a wrapped origin or offset, and a
\* guided search that has returned reports not found exactly if no test was
\* accepted, then with attempts_used = max_attempts and with the budget
\* consumed or the next origin at or above the modulus
C15_State ==
    caller = "guided" =>
        /\ \A t \in tests : /\ t.c = gp_base_start + 2 * (t.off + t.idx)
                             /\ t.c < Modulus
        /\ gp_pc = "returned" =>
              /\ gp_found = 0 <=> ~(\E t \in tests : AcceptedTest(t))
              /\ gp_found = 0 =>
                    /\ gp_attempts_used = gp_max_attempts
                    /\ \/ gp_remaining = 0
                       \/ gp_base_start + 2 * gp_offset >= Modulus

\* C15: guided_prime_search always terminates and never wraps around: every
\* loop iteration consumes at least one attempt of the remaining budget, and it
\* returns not found, with attempts_used = max_attempts, exactly when the full
\* budget has been consumed or the next origin would be at or above the
\* modulus without a probable prime having been accepted
C15_TerminatesNoWrap ==
    /\ [][C15_Step]_vars
    /\ []C15_State
    /\ <>(gp_pc = "returned")

\* a guided search that stopped with budget left because its next origin
\* reached the modulus
C15_Witness ==
    /\ caller = "guided"
    /\ gp_pc = "returned"
    /\ gp_found = 0
    /\ gp_remaining > 0
    /\ gp_base_start + 2 * gp_offset >= Modulus
    /\ tests # {}

\* C16 as stated: guided_prime_search never holds a working origin at or past
\* the modulus, in any state of a call
C16_OriginBelowModulus ==
    caller = "guided" => gp_current_start < Modulus

\* C16: guided_prime_search starts no segment search from an origin at or past
\* the modulus and reaches the head of its loop with none: current_start is
\* below the modulus there and during every segment's search, the search runs
\* from current_start, and the advance after a segment without a find can put
\* current_start at or past the modulus only in the step that ends the call
\* with not found
C16_NoSearchPastModulus ==
    caller = "guided" =>
        /\ gp_pc \in {"loop", "call"} => gp_current_start < Modulus
        /\ sp_pc # "idle" => sp_start = gp_current_start /\ sp_start < Modulus
        /\ gp_current_start >= Modulus => gp_pc = "returned" /\ gp_found = 0
        /\ \A t \in tests : gp_base_start + 2 * t.off < Modulus

\* a second segment, started from the last odd number below the modulus
C16_Witness ==
    /\ caller = "guided"
    /\ gp_pc = "call"
    /\ gp_offset > 0
    /\ sp_pc = "returned"
    /\ sp_start = Modulus - 1
    /\ \E t \in tests : t.off = gp_offset

\* odd, with exactly limit_bit bits
ExactWidthOdd(c, limit_bit) ==
    /\ c % 2 = 1
    /\ Pow2(limit_bit - 1) <= c
    /\ c < Pow2(limit_bit)

\* C17: in a search with a limit bit, from a start that is odd, has the bit
\* below the limit bit set and is below 2^limit_bit, every candidate tested is
\* odd and has exactly limit_bit bits, under the clamp and under the stop
\* policy; so is the candidate every running worker and the sequential loop
\* holds for its next test, a worker's first candidate start + 2k included
C17_CandidatesKeepWidth ==
    (sp_pc # "idle" /\ sp_limit_bit > 0 /\ ExactWidthOdd(sp_start, sp_limit_bit)) =>
        /\ \A t \in CallTests : ExactWidthOdd(t.c, sp_limit_bit)
        /\ \A k \in Threads :
              (sp_pc = "parallel" /\ th_pc[k] \in {"poll", "test"})
                  => ExactWidthOdd(th_candidate[k], sp_limit_bit)
        /\ (sp_pc = "sequential" /\ sp_attempt < sp_max_attempts)
              => ExactWidthOdd(sp_candidate, sp_limit_bit)

\* a worker other than the first had its first candidate start + 2k brought
\* back to the bottom of the width by the clamp, and tested it
C17_Witness ==
    /\ caller = "direct"
    /\ sp_limit_bit = WidthBits
    /\ ExactWidthOdd(sp_start, sp_limit_bit)
    /\ sp_clamp_on_limit = 1
    /\ \E t \in tests : t.by >= 1 /\ t.c < sp_start /\ t.idx = t.by

(***************************************************************************)
(* The seed mixer read as numbers.  A byte takes the values below          *)
(* 2^OsByteBits, ^ is XOR on them, and SHA-256, being external, is stood   *)
(* for by a fixed function of the hashed bytes.                            *)
(***************************************************************************)
ByteRange == 2^OsByteBits

\* the stand-in for SHA-256: the hashed bytes absorbed one by one
RECURSIVE Absorb(_, _)
Absorb(input, n) ==
    IF n = 0 THEN 1
    ELSE (Absorb(input, n - 1) * 5 + (input[n] + 1) * (input[n] + n) + 3) % 64

\* byte k of the stand-in digest of a sequence of byte values
MixDigest(input, k) == ((Absorb(input, Len(input)) + k) \div k) % ByteRange

\* the number a byte of the model stands for
RECURSIVE ByteValue(_)
ByteValue(b) ==
    IF b.src = <<>> THEN b.idx % ByteRange
    ELSE IF b.idx = -1 THEN BitXor(ByteValue(b.src[1]), ByteValue(b.src[2]))
    ELSE MixDigest([i \in 1..Len(b.src) |-> ByteValue(b.src[i])], b.idx)

\* seed[i] ^= digest[i] over SHA-256(os || salt)
MixedSeed(os, salt) == [k \in 1..SEED_SIZE |-> Xor(os[k], SHA256(os \o salt)[k])]

SeedValue(seed_buf) == [k \in 1..SEED_SIZE |-> ByteValue(seed_buf[k])]

SeedSucceeded == Returned /\ zs_seed_ptr /\ zs_rc = ZSEED_OK

\* every byte of the seed is an XOR of two bytes
SeedIsXor == \A k \in 1..SEED_SIZE : zs_seed[k].idx = -1

\* the bytes read from the entropy source and the salt hashed with them
MixOs == [k \in 1..SEED_SIZE |-> zs_seed[k].src[1]]

MixSalt ==
    LET input == zs_seed[1].src[2].src
    IN  SubSeq(input, SEED_SIZE + 1, Len(input))

\* on success the seed is os XOR the first SEED_SIZE bytes of
\* SHA-256(os || salt), os being SEED_SIZE bytes of the entropy source, and
\* XOR with the digest bytes gives the entropy source's bytes back
SeedIsMixedOs ==
    SeedSucceeded =>
        /\ SeedIsXor
        /\ MixOs \in OsBytes
        /\ Len(MixSalt) = Len(zs_mix_input)
        /\ zs_seed = MixedSeed(MixOs, MixSalt)
        /\ \A k \in 1..SEED_SIZE :
              BitXor(ByteValue(zs_seed[k]), ByteValue(SHA256(MixOs \o MixSalt)[k]))
                  = ByteValue(MixOs[k])

ContextBuilt == ds_pc \in {"hash0", "loop", "done"}

\* C19: derive_seed uses only the first TAG_PREFIX_MAX bytes of the tag: every
\* tag that agrees with the call's tag on those bytes, whatever follows, gives
\* the output of the call for the same seed and length; and the two copies
\* into context, tag_len bytes at 0 and SEED_SIZE bytes at tag_len, and the
\* hashed prefix stay inside the SEED_SIZE + TAG_PREFIX_MAX bytes of context
C19_TagPrefixOnly ==
    /\ ContextBuilt =>
          /\ ds_tag_len <= TAG_PREFIX_MAX
          /\ ds_tag_len <= Len(ds_tag)
          /\ ds_tag_len + SEED_SIZE <= Len(ds_context)
          /\ Len(ds_context) = SEED_SIZE + TAG_PREFIX_MAX
    /\ ds_pc = "done" =>
          \A t2 \in Tags :
              Take(t2, TAG_PREFIX_MAX) = Take(ds_tag, TAG_PREFIX_MAX)
                  => derive_seed(ds_base_seed, t2, ds_output_size) = ds_output

\* a call with a tag one byte longer than TAG_PREFIX_MAX whose output is that
\* of the tag cut to TAG_PREFIX_MAX bytes
C19_Witness ==
    /\ ds_pc = "done"
    /\ Len(ds_tag) = TAG_PREFIX_MAX + 1
    /\ ds_tag_len = TAG_PREFIX_MAX
    /\ ds_output_size = SHA256_DIGEST_LENGTH
    /\ ds_output = derive_seed(ds_base_seed, Take(ds_tag, TAG_PREFIX_MAX), ds_output_size)

\* the rounds of a full run, in order: geodesic 0..5, then standard 0..7
FullRounds ==
    [k \in 1..(MR_GEODESIC_WITNESSES + MR_STANDARD_WITNESSES) |->
        IF k <= MR_GEODESIC_WITNESSES THEN <<"geodesic", k - 1>>
        ELSE <<"standard", k - 1 - MR_GEODESIC_WITNESSES>>]

\* the outcome of round k of a full run on the call's candidate
RoundPasses(k) ==
    LET ctx == MrContext(mr_n)
        witness == IF k <= MR_GEODESIC_WITNESSES
                   THEN generate_geodesic_witnesses(mr_n, mr_seed, mr_hint, ctx)[k]
                   ELSE generate_standard_witnesses(ctx)[k - MR_GEODESIC_WITNESSES]
    IN  miller_rabin_round(ctx, witness) = 1

\* C20: for an odd candidate above 2 the rounds run in the order geodesic 0..5,
\* standard 0..7, every round run before the last one run has passed, the call
\* returns 1 only after all fourteen rounds have run and passed, and it
\* returns 0 right after the first failing round, with no later round run
C20_AllRoundsInOrder ==
    (mr_n > 2 /\ mr_n % 2 = 1) =>
        /\ Len(mr_rounds) <= Len(FullRounds)
        /\ \A k \in 1..Len(mr_rounds) : mr_rounds[k] = FullRounds[k]
        /\ \A k \in 1..(Len(mr_rounds) - 1) : RoundPasses(k)
        /\ mr_pc = "done" =>
              /\ mr_result = 1 =>
                    /\ mr_rounds = FullRounds
                    /\ \A k \in 1..Len(FullRounds) : RoundPasses(k)
              /\ mr_result = 0 =>
                    /\ mr_rounds # <<>>
                    /\ ~RoundPasses(Len(mr_rounds))

\* an odd composite that passed its first round and was rejected by a later
\* one, which ended the call
C20_Witness ==
    /\ mr_pc = "done"
    /\ mr_n > 2
    /\ mr_n % 2 = 1
    /\ mr_result = 0
    /\ Len(mr_rounds) >= 2
    /\ Len(mr_rounds) < Len(FullRounds)

(***************************************************************************)
(* Claims about the parallel path                                          *)
(***************************************************************************)
\* the tests the workers of the running call have made
WorkerTests == {t \in CallTests : t.by >= 0}

\* the call has passed its entry
SearchEntered == sp_pc \in {"parallel", "sequential", "returned"}

\* the candidate of attempt index i: start + 2*i, or under the clamp policy
\* its image once bit limit_bit is reached
CandidateAt(i) ==
    LET x == sp_start + 2 * i
    IN  IF sp_limit_bit > 0 /\ sp_clamp_on_limit = 1 /\ TstBit(x, sp_limit_bit)
        THEN SetBit(ClrBit(x, sp_limit_bit), sp_limit_bit - 1)
        ELSE x

C22_Step ==
    /\ (sp_pc = "parallel" /\ <<sp_found, sp_found_prime, sp_found_attempt>>'
                                  # <<sp_found, sp_found_prime, sp_found_attempt>>) =>
          /\ sp_found = 0
          /\ sp_found' = 1
          /\ \E k \in Threads :
                /\ th_pc[k] = "test"
                /\ th_pc'[k] = "done"
                /\ sp_found_prime' = th_candidate[k]
                /\ sp_found_attempt' = th_attempt_index[k]
                /\ candidate_is_probable_prime(th_candidate[k], CfgSeed,
                       BitXor(sp_hint_seed, th_attempt_index[k])) = 1
                /\ (GuardSet => ~TopBitsEqual(th_candidate[k], too_close_ref))
    /\ (sp_found = 1 /\ sp_found' # 1) => sp_pc = "entry"
    /\ (sp_pc = "parallel" /\ sp_pc' # "parallel") =>
          IF sp_found = 1
          THEN /\ sp_pc' = "returned"
               /\ sp_ret' = 1
               /\ result_out' = sp_found_prime
               /\ sp_attempts_used' = sp_found_attempt
          ELSE sp_ret' # 1

\* C22: the winning slot of the parallel path is single-writer: found_prime and
\* found_attempt are written only in the step that takes found from 0 to 1, by
\* a worker whose candidate passed the primality test and the proximity guard
\* when it is enforced; found does not go back to 0 during the call; and the
\* prime and attempts_used returned after the join are the recorded pair
C22_SingleWriter == [][C22_Step]_vars

\* a find returned by the parallel path after two workers each had a
\* candidate accepted
C22_Witness ==
    /\ sp_pc = "returned"
    /\ sp_ret = 1
    /\ sp_used_parallel = 1
    /\ result_out = sp_found_prime
    /\ \E t \in WorkerTests, u \in WorkerTests :
          t.by # u.by /\ AcceptedTest(t) /\ AcceptedTest(u)

(***************************************************************************)
(* A direct call on the parallel path under fairness                       *)
(***************************************************************************)
\* direct calls with a team of two or three: starts next to primes, at the
\* top of the width and at its bottom, both limit policies and no limit
InitFairParallel ==
    /\ InitSearch
    /\ caller = "direct"
    /\ omp_max_threads \in {2, 3}
    /\ enforce_not_too_close = 1
    /\ sp_max_attempts \in {2, MaxAttempts}

NextParallel ==
    \/ SP_Entry
    \/ \E k \in Threads : TH_Init(k)
    \/ \E k \in Threads : TH_Poll(k)
    \/ \E k \in Threads : TH_Test(k)
    \/ SP_Join
    \/ SP_SeqStep

\* every thread of the team keeps being scheduled
FairParallel == InitFairParallel /\ [][NextParallel]_vars /\ WF_vars(NextParallel)

\* a worker starts a test only from a poll that saw both flags down, so with
\* found set no worker starts one; a poll that sees a flag up ends the worker
\* without a test; a worker in the middle of a test makes that one test and is
\* back at its poll or done; found stays set; and tests in the region are made
\* one at a time by workers at their test step
C23_Step ==
    /\ \A k \in Threads :
          /\ (th_pc[k] # "test" /\ th_pc'[k] = "test") =>
                th_pc[k] = "poll" /\ sp_found = 0 /\ sp_limit_reached = 0
          /\ (th_pc[k] = "poll" /\ th_pc'[k] # "poll"
                  /\ (sp_found = 1 \/ sp_limit_reached = 1)) =>
                th_pc'[k] = "done" /\ tests' = tests
          /\ (th_pc[k] = "test" /\ th_pc'[k] # "test") =>
                /\ th_pc'[k] \in {"poll", "done"}
                /\ Cardinality({t \in tests' : t.by = k}) <=
                       Cardinality({t \in tests : t.by = k}) + 1
    /\ (sp_pc = "parallel" /\ sp_found = 1) => sp_found' = 1
    /\ (sp_pc = "parallel" /\ tests' # tests) =>
          /\ Cardinality(tests') = Cardinality(tests) + 1
          /\ \E k \in Threads : th_pc[k] = "test" /\ th_pc'[k] # "test"

\* C23: every worker polls found and limit_reached before each primality
\* test; once found is set, a worker that is not in the middle of a test starts
\* no further one, so a worker completes at most the test it had in progress;
\* and every worker leaves its loop, so the join is reached
C23_EarlyStop ==
    /\ [][C23_Step]_vars
    /\ []((sp_pc = "parallel") => <>(sp_pc # "parallel"))

\* found is set while another worker is at its poll and a third is in the
\* middle of a test
C23_Witness ==
    /\ sp_pc = "parallel"
    /\ sp_found = 1
    /\ \E k \in Threads : th_pc[k] = "poll"
    /\ \E k \in Threads : th_pc[k] = "test"

(***************************************************************************)
(* The stop policy of the parallel path                                    *)
(***************************************************************************)
\* the call stops at the width ceiling instead of clamping
StopPolicy == sp_limit_bit > 0 /\ sp_clamp_on_limit = 0

\* one step of a call in its parallel region under the stop policy
C24_Step ==
    /\ (sp_pc = "parallel" /\ StopPolicy) =>
          \A k \in Threads :
             \* a worker's candidate with the limit bit set: the step that
             \* produced it raised limit_reached and ended the worker's loop
             /\ (th_pc[k] \in {"init", "test"} /\ th_pc'[k] # th_pc[k]
                 /\ TstBit(th_candidate'[k], sp_limit_bit)) =>
                   /\ sp_limit_reached' = 1
                   /\ th_pc'[k] = "done"
             \* every candidate a worker tests has the limit bit clear
             /\ (th_pc[k] = "test" /\ th_pc'[k] # "test") =>
                   /\ ~TstBit(th_candidate[k], sp_limit_bit)
                   /\ \A t \in tests' \ tests : t.by = k /\ t.c = th_candidate[k]
    /\ (sp_pc = "parallel" /\ sp_pc' # "parallel") =>
          IF sp_found = 1
          THEN /\ sp_pc' = "returned"
               /\ sp_ret' = 1
               /\ result_out' = sp_found_prime
          ELSE IF sp_limit_reached = 1
          THEN /\ sp_pc' = "returned"
               /\ sp_ret' = 0
               /\ tests' = tests
          ELSE sp_pc' = "sequential"
    /\ (sp_pc' = "sequential" /\ sp_pc = "parallel") => sp_limit_reached = 0

\* C24: in the parallel path under the stop policy a worker whose candidate
\* would have bit limit_bit set raises limit_reached and leaves its loop
\* without testing that candidate; after the join, a recorded success is
\* returned even when limit_reached is raised, and limit_reached without a
\* success returns not found without entering the sequential loop
C24_StopPolicy == [][C24_Step]_vars

\* a parallel call returned its recorded prime although a worker had raised
\* limit_reached
C24_Witness ==
    /\ sp_pc = "returned"
    /\ sp_total_threads >= 2
    /\ StopPolicy
    /\ sp_used_parallel = 1
    /\ sp_limit_reached = 1
    /\ sp_found = 1
    /\ sp_ret = 1
    /\ result_out = sp_found_prime

\* a parallel call ended not found on limit_reached with no success recorded
C24_LimitOnlyReached ==
    /\ sp_pc = "returned"
    /\ StopPolicy
    /\ sp_limit_reached = 1
    /\ sp_found = 0
    /\ sp_ret = 0

(***************************************************************************)
(* The choice between the parallel and the sequential path                 *)
(***************************************************************************)
\* the workers a parallel region was started with
Workers == {k \in Threads : th_pc[k] # "off"}

\* one step of a call, as seen on the path choice and on used_parallel
C25_Step ==
    /\ (sp_pc = "entry" /\ sp_pc' # "entry") =>
          LET usable == Min(omp_max_threads, sp_max_attempts)
          IN  /\ sp_used_parallel' = 0
              /\ (sp_pc' = "parallel") <=> (usable >= 2)
              /\ (sp_pc' = "sequential") <=> (usable = 1)
              /\ (sp_pc' = "returned") <=> (sp_max_attempts = 0)
              /\ (sp_pc' = "parallel") =>
                    /\ sp_total_threads' = usable
                    /\ sp_total_threads' <= sp_max_attempts
                    /\ {k \in Threads : th_pc'[k] # "off"} = 0..(usable - 1)
    /\ (sp_used_parallel' = 1 /\ sp_pc # "entry") =>
          \/ sp_used_parallel = 1
          \/ /\ sp_pc = "parallel"
             /\ sp_pc' = "returned"
             /\ sp_found = 1
             /\ sp_ret' = 1
             /\ result_out' = sp_found_prime
             /\ \E t \in WorkerTests : t.c = sp_found_prime /\ t.idx = sp_found_attempt
    /\ (sp_pc = "sequential") => (sp_used_parallel = 0 /\ sp_used_parallel' = 0)

\* C25: the parallel path is entered exactly when min(available threads,
\* max_attempts) is at least 2 and is run by that many workers, never more
\* than max_attempts; with one usable worker or max_attempts = 1 the
\* sequential loop runs; used_parallel becomes 1 only in the return of a
\* prime that a worker recorded, and stays 0 on the sequential path
C25_PathChoice == [][C25_Step]_vars

\* a parallel call whose workers were limited by the attempt budget, not by
\* the threads available, returned a worker's prime
C25_Witness ==
    /\ sp_pc = "returned"
    /\ sp_max_attempts < omp_max_threads
    /\ sp_total_threads = sp_max_attempts
    /\ Cardinality(Workers) = sp_max_attempts
    /\ sp_used_parallel = 1
    /\ sp_ret = 1

\* a call with several threads available ran the sequential loop because its
\* budget was one attempt
C25_SequentialReached ==
    /\ sp_pc = "returned"
    /\ omp_max_threads >= 2
    /\ sp_max_attempts = 1
    /\ sp_used_parallel = 0
    /\ \E t \in tests : t.by = -1

(***************************************************************************)
(* The work of one call of search_prime_candidates                         *)
(***************************************************************************)
\* C26: one call of search_prime_candidates makes at most max_attempts
\* primality tests, counted over its workers and its sequential loop, and
\* tests no attempt index twice
C26_BudgetBoundsTests ==
    SearchEntered =>
       /\ Cardinality(CallTests) <= sp_max_attempts
       /\ \A t, u \in CallTests : t.idx = u.idx => t = u

\* the workers of a call tested every index below max_attempts, none was
\* accepted and none reached the limit, and the sequential loop of the same
\* call has tested index 0 again
C26_SequentialRepeatsWorkers ==
    /\ sp_pc \in {"sequential", "returned"}
    /\ sp_total_threads >= 2
    /\ sp_found = 0
    /\ sp_limit_reached = 0
    /\ \A i \in 0..(sp_max_attempts - 1) : \E t \in WorkerTests : t.idx = i
    /\ \E t \in CallTests : t.by = -1 /\ t.idx = 0
    /\ Cardinality(CallTests) > sp_max_attempts

(***************************************************************************)
(* The segments of guided_prime_search                                     *)
(***************************************************************************)
\* the attempt indices of the segment being searched
SegmentIndices == gp_offset..(gp_offset + gp_segment - 1)

\* the candidates of the running segment that no test of the segment was made on
SegmentUntested ==
    {i \in SegmentIndices :
        ~\E t \in CallTests : t.c = gp_base_start + 2 * i}

\* one step of guided_prime_search, as seen on the origins of its segments
C27_OriginStep ==
    /\ (gp_pc = "loop" /\ gp_pc' = "call") =>
          /\ sp_start' = gp_base_start + 2 * gp_offset
          /\ sp_hint_seed' = ULong(gp_hint_seed + gp_offset)
          /\ sp_max_attempts' = gp_segment'
          /\ gp_segment' >= 1
    /\ (gp_pc = "call" /\ gp_pc' # "call" /\ sp_ret = 0) =>
          /\ gp_offset' = gp_offset + gp_segment
          /\ gp_remaining' = gp_remaining - gp_segment

\* one step of guided_prime_search, as seen on the tests of a segment that
\* reported not found
C27_CoverStep ==
    (gp_pc = "call" /\ gp_pc' # "call" /\ sp_ret = 0) => SegmentUntested = {}

\* C27: guided search covers the attempt indices contiguously: the segment
\* after cumulative offset o starts at base_start + 2*o with hint
\* hint_seed + o, the next segment starts at the offset the previous one ended
\* at, and when a segment reports not found every candidate base_start + 2*i
\* of the segment's index range has been tested before the origin advances
C27_ContiguousCover == [][C27_OriginStep /\ C27_CoverStep]_vars

\* the origins alone: segments start where the claim says and neither overlap
\* nor leave a gap in the index ranges
C27_OriginsContiguous == [][C27_OriginStep]_vars

\* a segment's parallel search returned not found on limit_reached while a
\* candidate of the segment's range was never tested
C27_SegmentLeftUntested ==
    /\ gp_pc = "call"
    /\ sp_pc = "returned"
    /\ sp_ret = 0
    /\ sp_limit_reached = 1
    /\ sp_total_threads >= 2
    /\ SegmentUntested # {}

(***************************************************************************)
(* The parallel path against the sequential loop                           *)
(***************************************************************************)
\* the sequential loop of search_prime_candidates from candidate c at attempt
\* index attempt, for the inputs of the running call: [found, prime, attempt]
RECURSIVE SequentialFrom(_, _)
SequentialFrom(c, attempt) ==
    IF attempt >= sp_max_attempts
    THEN [found |-> 0, prime |-> 0, attempt |-> sp_max_attempts]
    ELSE LET hint_value == BitXor(sp_hint_seed, attempt)
             next == LimitCheck(c + 2, sp_limit_bit, sp_clamp_on_limit)
         IN  IF /\ candidate_is_probable_prime(c, CfgSeed, hint_value) = 1
                /\ Accepts(c, too_close_ref, enforce_not_too_close)
             THEN [found |-> 1, prime |-> c, attempt |-> attempt]
             ELSE IF next.stop
                  THEN [found |-> 0, prime |-> 0, attempt |-> sp_max_attempts]
                  ELSE SequentialFrom(next.candidate, attempt + 1)

\* what the call returns when it is run with one worker
SequentialOutcome == SequentialFrom(sp_start, 0)

\* the call's inputs send it to the parallel path
ParallelCall == Min(omp_max_threads, sp_max_attempts) >= 2

\* a returned parallel call reports found exactly when one worker would
C28_SameVerdict ==
    (sp_pc = "returned" /\ ParallelCall) => (sp_ret = SequentialOutcome.found)

\* a prime returned by the parallel path is the candidate of some attempt index
\* i below the budget (start + 2*i, or its image under the clamp policy) that
\* passes the test with hint hint_seed XOR i and the guard
C28_PrimeAcceptable ==
    (sp_pc = "returned" /\ ParallelCall /\ sp_ret = 1) =>
       \E i \in 0..(sp_max_attempts - 1) :
          /\ result_out = CandidateAt(i)
          /\ candidate_is_probable_prime(result_out, CfgSeed, BitXor(sp_hint_seed, i)) = 1
          /\ Accepts(result_out, too_close_ref, enforce_not_too_close)

\* C28: the parallel and the sequential path agree on the outcome: under every
\* interleaving a call with at least two workers reports found if and only if
\* the same call with one worker does, and a prime returned by the parallel
\* path is a candidate start + 2*i, i < max_attempts, that the sequential
\* path would accept with hint hint_seed XOR i
C28_PathsAgree == C28_SameVerdict /\ C28_PrimeAcceptable

\* a parallel call under the stop policy returned not found on limit_reached
\* although the sequential loop finds a prime for the same inputs
C28_ParallelMissesPrime ==
    /\ sp_pc = "returned"
    /\ ParallelCall
    /\ sp_ret = 0
    /\ sp_limit_reached = 1
    /\ SequentialOutcome.found = 1
    /\ ~\E t \in CallTests : t.c = SequentialOutcome.prime

(***************************************************************************)
(* attempts_used and the returned candidate                                *)
(***************************************************************************)
\* no candidate up to the returned one was folded back by the clamp
NoClampWrap ==
    ~(sp_clamp_on_limit = 1 /\ sp_limit_bit > 0
      /\ \E i \in 0..sp_attempts_used : TstBit(sp_start + 2 * i, sp_limit_bit))

\* C29: attempts_used identifies the returned candidate: a found call of
\* search_prime_candidates without a clamp wrap-around has
\* result = start + 2*attempts_used with attempts_used < max_attempts, on the
\* sequential and on the parallel path; a found call of guided_prime_search
\* has result = base_start + 2*attempts_used, attempts_used being the
\* segment's cumulative offset plus the index inside the segment
C29_AttemptsIdentifyResult ==
    /\ (sp_pc = "returned" /\ sp_ret = 1 /\ NoClampWrap) =>
          /\ result_out = sp_start + 2 * sp_attempts_used
          /\ sp_attempts_used < sp_max_attempts
    /\ (caller = "guided" /\ gp_pc = "returned" /\ gp_found = 1) =>
          /\ gp_attempts_used = gp_offset + sp_attempts_used
          /\ result_out = gp_base_start + 2 * gp_attempts_used
          /\ gp_attempts_used < gp_max_attempts

\* a guided search returned a prime found by a worker at an index above 0
C29_Witness ==
    /\ caller = "guided"
    /\ gp_pc = "returned"
    /\ gp_found = 1
    /\ gp_used_parallel = 1
    /\ gp_attempts_used >= 1
    /\ result_out = gp_base_start + 2 * gp_attempts_used

\* a direct call returned a prime found by its sequential loop at an index
\* above 0
C29_SequentialFound ==
    /\ caller = "direct"
    /\ sp_pc = "returned"
    /\ sp_ret = 1
    /\ sp_used_parallel = 0
    /\ sp_attempts_used >= 1
    /\ NoClampWrap

(***************************************************************************)
(* The return value of z5d_nth_prime                                       *)
(***************************************************************************)
\* the search that z5d_nth_prime ended on reported found
NthSearchFound ==
    \/ np_path = "guided" /\ gp_found = 1
    \/ np_path = "fallback" /\ sp_ret = 1

\* C30: z5d_nth_prime returns 1 exactly when the guided search or the
\* fallback call of search_prime_candidates reported found, whatever the
\* debug and quiet flags are
C30_ReturnsFoundness ==
    (np_pc = "returned") => (np_ret = 1 <=> NthSearchFound)

\* the fallback search found a prime and left it in prime_out, debug output
\* was off or quiet was on, and z5d_nth_prime returned 0
C30_FallbackFindReported0 ==
    /\ np_pc = "returned"
    /\ np_path = "fallback"
    /\ sp_ret = 1
    /\ ~(g_debug = 1 /\ g_quiet = 0)
    /\ result_out \in PrimesInWidth
    /\ np_ret = 0

\* with debug on and quiet off the same fallback find is reported as 1
C30_FallbackFindReported1 ==
    /\ np_pc = "returned"
    /\ np_path = "fallback"
    /\ sp_ret = 1
    /\ g_debug = 1 /\ g_quiet = 0
    /\ np_ret = 1

====
